---- MODULE Spec2Model ----
(***************************************************************************)
(* Montana: node-tree store, encryption overlay and cloud reconciliation   *)
(* coordinator of App.tsx, with the services it calls.                     *)
(*                                                                         *)
(* Node ids are natural numbers handed out by a counter (crypto.randomUUID *)
(* never repeats an id); Null (0) stands for a null parentId.  The node    *)
(* array is modelled as a function from the ids present to node records:   *)
(* ids are unique, so array order only matters for rendering.              *)
(***************************************************************************)
EXTENDS Integers, FiniteSets, Sequences, TLC

VARIABLES
  nodes,                     \* useState nodes
  activeNodeId,              \* useState activeNodeId
  nextId,                    \* next id generateId / crypto.randomUUID hands out
  history,                   \* versionHistory: the snapshots under 'montana-history'
  historyTimer,              \* pending setTimeout(..., 5000) of the version history effect
  localSync,                 \* localSyncService rootDirHandle, fileHandleMap, nodePathMap
  localSyncNodeIds,          \* localSyncNodeIds.current
  disk,                      \* text of the files of the synced directory, by the node of their handle
  localTasks,                \* openAndSync and disconnect calls that have not settled
  decryptedNotes,            \* decryptedNotesRef.current
  decryptedNotePasswords,    \* decryptedNotePasswordsRef.current
  encryptedContentVersion,   \* encryptedContentVersionRef.current
  encTasks,                  \* encryptNoteContent and decryptNoteContent promises not yet settled
  settings,                  \* "local", or the endpoint (supabaseUrl, supabaseAnonKey) of cloud mode
  syncUser,                  \* useState syncUser
  supabaseClient,            \* supabaseService _supabase
  sessionRestorePending,     \* getSession of the session restore effect not yet resolved
  cloudHydrated,             \* cloudHydratedRef.current
  cloudHydrationKey,         \* cloudHydrationKeyRef.current
  isCloudMutating,           \* isCloudMutatingRef.current
  cloudMutationUnlockTimer,  \* cloudMutationUnlockTimerRef.current
  unlockTimers,              \* pending window.setTimeout(..., 1200) timers
  autoPushTimer,             \* pending setTimeout(..., 3000) of the auto-push effect
  tasks,                     \* remote requests in flight
  remoteRows,                \* rows of the notes table, per endpoint
  sinceChange,               \* time a pending auto-push has waited since setNodes last produced a new array
  ops,                       \* user gestures and notifications left in this run
  lastOp                     \* the step taken last

treeVars == <<nodes, activeNodeId, nextId>>
historyVars == <<history, historyTimer>>
localVars == <<localSync, localSyncNodeIds, disk, localTasks>>
cacheVars == <<decryptedNotes, decryptedNotePasswords, encryptedContentVersion>>
overlayVars == <<cacheVars, encTasks>>
sessionVars == <<settings, syncUser, supabaseClient, sessionRestorePending>>
hydrationVars == <<cloudHydrated, cloudHydrationKey>>
guardVars == <<isCloudMutating, cloudMutationUnlockTimer, unlockTimers>>
syncVars == <<sessionVars, hydrationVars, guardVars, tasks, remoteRows>>
vars == <<treeVars, historyVars, localVars, overlayVars, syncVars, autoPushTimer, sinceChange, ops, lastOp>>

(***************************************************************************)
(* Bounds of the model.                                                    *)
(***************************************************************************)
MaxId == 8        \* ids the counter may hand out
MaxOps == 3       \* gestures per run of the tree store
MaxSyncOps == 2   \* gestures and notifications per run of the coordinator
MaxAllOps == 2    \* gestures and notifications per run of the whole application
MaxTasks == 2     \* remote requests in flight at once
MaxEdits == 3     \* gestures per run of the editor of an encrypted note
MaxPushOps == 3   \* gestures per run of the two devices
MaxOverlayOps == 3  \* gestures per run of the encryption overlay
MaxLocalOps == 3    \* gestures per run of the directory adapter with the editor
MaxRelockOps == 4   \* gestures per run of the overlay across a relock
MaxHistoryOps == 3  \* gestures per run of the editor with the recorder
MaxRecords == 32  \* calls of saveVersion per run of the recorder
MaxOtherRecords == 1  \* of these, the calls for the second note
TickMs == 600     \* granularity of time

AutoPushDelay == 3000
HistoryDelay == 5000
MAX_VERSIONS == 30
UnlockDelay == 1200

NoUser == "null"
NoKey == "null"
NoClient == "null"
NoTimer == 0
Users == {"u1"}
Endpoints == {"e1", "e2"}

Null == 0
Undefined == "undefined"
FILE == "FILE"
FOLDER == "FOLDER"

Names == {"renamed"}
Contents == {"", "x"}
Passwords == {"pw", "qw"}
Salts == {"s1", "s2"}   \* values crypto.getRandomValues may return

(***************************************************************************)
(* types.ts FileSystemNode (the id is the key of the nodes function).      *)
(***************************************************************************)
FileSystemNode(parentId, name, type, content, isOpen, createdAt) ==
  [parentId |-> parentId, name |-> name, type |-> type, content |-> content,
   isOpen |-> isOpen, createdAt |-> createdAt]

initialNodes ==
  (1 :> FileSystemNode(Null, "Welcome", FOLDER, Undefined, "true", 0)) @@
  (2 :> FileSystemNode(1, "Start Here", FILE, "welcome", Undefined, 0)) @@
  (3 :> FileSystemNode(Null, "Personal", FOLDER, Undefined, "false", 0))

Ids(ns) == DOMAIN ns
Folders(ns) == {i \in DOMAIN ns : ns[i].type = FOLDER}
Files(ns) == {i \in DOMAIN ns : ns[i].type = FILE}
Restrict(f, S) == [i \in S |-> f[i]]

(***************************************************************************)
(* handleToggleFolder: !n.isOpen, where undefined is falsy.                *)
(***************************************************************************)
handleToggleFolder(prev, id) ==
  [i \in DOMAIN prev |->
     IF i = id
       THEN [prev[i] EXCEPT !.isOpen = IF prev[i].isOpen = "true" THEN "false" ELSE "true"]
       ELSE prev[i]]

handleCreateNode(prev, id, parentId, type) ==
  prev @@ (id :> FileSystemNode(parentId,
                                IF type = FOLDER THEN "new folder" ELSE "new note",
                                type,
                                IF type = FILE THEN "" ELSE Undefined,
                                "true", id))

handleRenameNode(prev, id, name) ==
  [i \in DOMAIN prev |-> IF i = id THEN [prev[i] EXCEPT !.name = name] ELSE prev[i]]

(***************************************************************************)
(* handleMoveNode: isDesc walks the parentId links upward from the         *)
(* proposed parent looking for the moved node.                             *)
(***************************************************************************)
\* isDesc with the walk cut short: only the proposed parent itself is compared
isDescSelfOnly(prev, pid, tid) == pid = tid

RECURSIVE isDesc(_, _, _)
isDesc(prev, pid, tid) ==
  IF pid = Null THEN FALSE
  ELSE IF pid = tid THEN TRUE
  ELSE IF pid \in DOMAIN prev THEN isDesc(prev, prev[pid].parentId, tid)
  ELSE FALSE

\* handleMoveNode without the isDesc test
handleMoveNodeUnchecked(prev, nodeId, newParentId) ==
  [i \in DOMAIN prev |->
     IF i = nodeId THEN [prev[i] EXCEPT !.parentId = newParentId] ELSE prev[i]]

handleMoveNode(prev, nodeId, newParentId) ==
  IF isDesc(prev, newParentId, nodeId) THEN prev
  ELSE [i \in DOMAIN prev |->
          IF i = nodeId THEN [prev[i] EXCEPT !.parentId = newParentId] ELSE prev[i]]

(***************************************************************************)
(* handleDeleteNode: del removes tid, then recurses into the children that *)
(* tid had in the list it was given.                                       *)
(***************************************************************************)
\* del without the recursion into the children
delOnlyNode(tid, ns) == Restrict(ns, DOMAIN ns \ {tid})

RECURSIVE del(_, _)
RECURSIVE delEach(_, _)
del(tid, ns) ==
  LET ch == {c \in DOMAIN ns : ns[c].parentId = tid}
      r == Restrict(ns, DOMAIN ns \ {tid})
  IN delEach(ch, r)

delEach(ch, r) ==
  IF ch = {} THEN r
  ELSE LET c == CHOOSE x \in ch : TRUE
       IN delEach(ch \ {c}, del(c, r))

handleDeleteNode(prev, id) == del(id, prev)

(***************************************************************************)
(* handleUpdateContent, branch for a node whose content is not an          *)
(* encrypted envelope.                                                     *)
(***************************************************************************)
setContent(prev, id, content) ==
  [i \in DOMAIN prev |-> IF i = id THEN [prev[i] EXCEPT !.content = content] ELSE prev[i]]

(***************************************************************************)
(* encryptionService.  The salt and the iv are drawn together and written  *)
(* as one field; the AES-GCM ciphertext is written as the derived key      *)
(* followed by the plaintext, so that it opens under that key alone.       *)
(***************************************************************************)
ENCRYPTION_PREFIX == "montana:enc:v1:"

startsWith(content, prefix) ==
  Len(content) >= Len(prefix) /\ SubSeq(content, 1, Len(prefix)) = prefix

RECURSIVE indexOf(_, _, _)
indexOf(str, ch, i) ==
  IF i > Len(str) THEN 0
  ELSE IF SubSeq(str, i, i) = ch THEN i
  ELSE indexOf(str, ch, i + 1)

isEncryptedContent(content) ==
  content # Undefined /\ content # "" /\ startsWith(content, ENCRYPTION_PREFIX)

deriveKey(password, salt) == password \o "/" \o salt

encryptNoteContent(plainText, password, salt) ==
  ENCRYPTION_PREFIX \o salt \o "," \o deriveKey(password, salt) \o "," \o plainText

\* the two errors decryptNoteContent throws
NotEncrypted == [threw |-> TRUE, plain |-> "", message |-> "NotEncrypted"]
WrongPasswordOrCorrupt == [threw |-> TRUE, plain |-> "", message |-> "WrongPasswordOrCorrupt"]

\* decryptNoteContent with a cipher that opens under any key
decryptNoteContentAnyKey(encryptedContent, password) ==
  IF ~isEncryptedContent(encryptedContent) THEN NotEncrypted
  ELSE
    LET payloadRaw == SubSeq(encryptedContent, Len(ENCRYPTION_PREFIX) + 1,
                             Len(encryptedContent))
        comma == indexOf(payloadRaw, ",", 1)
        data == SubSeq(payloadRaw, comma + 1, Len(payloadRaw))
        second == indexOf(data, ",", 1)
    IN [threw |-> FALSE, plain |-> SubSeq(data, second + 1, Len(data))]

decryptNoteContent(encryptedContent, password) ==
  IF ~isEncryptedContent(encryptedContent) THEN NotEncrypted
  ELSE
    LET payloadRaw == SubSeq(encryptedContent, Len(ENCRYPTION_PREFIX) + 1,
                             Len(encryptedContent))
        comma == indexOf(payloadRaw, ",", 1)
        salt == SubSeq(payloadRaw, 1, comma - 1)
        data == SubSeq(payloadRaw, comma + 1, Len(payloadRaw))
        key == deriveKey(password, salt) \o ","
    IN IF comma = 0 \/ ~startsWith(data, key) THEN WrongPasswordOrCorrupt
       ELSE [threw |-> FALSE, plain |-> SubSeq(data, Len(key) + 1, Len(data))]

(***************************************************************************)
(* Encryption overlay: the three maps kept in refs.                        *)
(***************************************************************************)
mapSet(m, k, v) == [i \in DOMAIN m \cup {k} |-> IF i = k THEN v ELSE m[i]]
mapGet(m, k, default) == IF k \in DOMAIN m THEN m[k] ELSE default

\* the then of encryptNoteContent without the test of the version
staleEncryptionAccepted(versions, id, version) == FALSE

\* handleUpdateContent, in the then of encryptNoteContent:
\* if (encryptedContentVersionRef.current.get(id) !== version) return;
staleEncryption(versions, id, version) ==
  id \notin DOMAIN versions \/ versions[id] # version

\* handleEncryptNote once encryptNoteContent has resolved
handleEncryptNote(prev, noteId, encryptedContent) == setContent(prev, noteId, encryptedContent)

(***************************************************************************)
(* supabaseService: row mapping, client singleton, fetch.                  *)
(***************************************************************************)
\* nodeToRow: content ?? null, isOpen ?? false (updated_at = Date.now() is
\* write-only and left out of the row).
nodeToRow(node, id, userId) ==
  [id |-> id, parent_id |-> node.parentId, name |-> node.name, type |-> node.type,
   content |-> IF node.content = Undefined THEN "null" ELSE node.content,
   is_open |-> IF node.isOpen = Undefined THEN "false" ELSE node.isOpen,
   created_at |-> node.createdAt, user_id |-> userId]

rowToNode(row) ==
  FileSystemNode(row.parent_id, row.name,
                 IF row.type = FILE THEN FILE ELSE FOLDER,
                 IF row.content = "null" THEN Undefined ELSE row.content,
                 row.is_open, row.created_at)

NoRows == <<>>
rowsOf(ns, userId) == [i \in DOMAIN ns |-> nodeToRow(ns[i], i, userId)]

\* getClient: the first caller creates the client, later callers reuse it.
getClient(client, url) == IF client # NoClient THEN client ELSE url

\* fetchAllNotes without the throw: (data || []).map(rowToNode) of a failed select
fetchAllNotesNoThrow(rows, userId, error) ==
  LET visible == {i \in DOMAIN rows : rows[i].user_id = userId}
  IN [threw |-> FALSE,
      data |-> IF error THEN NoRows ELSE [i \in visible |-> rowToNode(rows[i])]]

\* fetchAllNotes: throws on error, otherwise maps every row the row-level
\* policy lets the user see.
fetchAllNotes(rows, userId, error) ==
  LET visible == {i \in DOMAIN rows : rows[i].user_id = userId}
  IN [threw |-> error,
      data |-> IF error THEN NoRows ELSE [i \in visible |-> rowToNode(rows[i])]]

\* cloudNodes.find(n => n.type === FILE) on rows ordered by created_at
firstFile(ns) ==
  IF Files(ns) = {} THEN Null
  ELSE CHOOSE f \in Files(ns) :
         \A g \in Files(ns) :
           \/ ns[f].createdAt < ns[g].createdAt
           \/ (ns[f].createdAt = ns[g].createdAt /\ f <= g)

(***************************************************************************)
(* Reconciliation coordinator: session key, mutation guard, effects.       *)
(***************************************************************************)
\* the effects' common test on storageMode, supabaseUrl, supabaseAnonKey and
\* syncUser, and the key of the hydration effect
Key(user, endpoint) ==
  IF endpoint = "local" \/ user = NoUser THEN NoKey ELSE user \o "|" \o endpoint

CurrentKey == Key(syncUser, settings)

\* withCloudMutationGuard, before the task: set the flag and clear the timer
\* the ref names.
GuardStart(timers, ref) == {t \in timers : t.id # ref}

FreshTimer(timers) ==
  CHOOSE i \in 1..(Cardinality(timers) + 1) : \A t \in timers : t.id # i

\* withCloudMutationGuard with the release after the task instead of in a
\* finally block: a task that threw schedules nothing
GuardNoFinally(timers, threw) ==
  IF threw THEN timers
  ELSE timers \cup {[id |-> FreshTimer(timers), remaining |-> UnlockDelay]}

\* withCloudMutationGuard, finally block: schedule the release whether the
\* task resolved or threw.
GuardFinally(timers, threw) ==
  timers \cup {[id |-> FreshTimer(timers), remaining |-> UnlockDelay]}

\* onChange without the test of the flag
onChangeNeverIgnored(mutating) == FALSE

\* realtime onChange: if (isCloudMutatingRef.current) return;
onChangeIgnored(mutating) == mutating

\* hydration effect: does this run issue a pull?
hydrationStarts(key, hydrationKey, hydrated) ==
  key # NoKey /\ ~(hydrationKey = key /\ hydrated)

\* auto-push effect without the cleanup: the timer of the previous run stays
AutoPushEffectNoCleanup(old, ns, user, endpoint, hydrated, mutating) ==
  IF Key(user, endpoint) = NoKey \/ ~hydrated \/ mutating THEN old
  ELSE old \cup {[nodes |-> ns, user |-> user, endpoint |-> endpoint,
                  remaining |-> AutoPushDelay]}

\* auto-push effect: the cleanup clears the timer of the previous run, the
\* run arms a new one when the session is hydrated and the guard is clear.
AutoPushEffect(old, ns, user, endpoint, hydrated, mutating) ==
  IF Key(user, endpoint) = NoKey \/ ~hydrated \/ mutating THEN {}
  ELSE {[nodes |-> ns, user |-> user, endpoint |-> endpoint, remaining |-> AutoPushDelay]}

FreshTask == CHOOSE i \in 1..(Cardinality(tasks) + 1) : \A t \in tasks : t.id # i
Room == Cardinality(tasks) < MaxTasks
Task(kind, user, endpoint, ns, phase) ==
  [id |-> FreshTask, kind |-> kind, user |-> user, endpoint |-> endpoint,
   nodes |-> ns, phase |-> phase]

Op(op, id, arg) == [op |-> op, id |-> id, arg |-> arg]

(***************************************************************************)
(* localSyncService: directory import.  A directory entry is a file        *)
(* (stem, ext, text, lastModified) or a directory (stem, ext, entries);    *)
(* its name is stem \o ext, so that endsWith can be decided.               *)
(***************************************************************************)
FileEntry(stem, ext, text) ==
  [kind |-> "file", stem |-> stem, ext |-> ext, text |-> text, lastModified |-> 1]
DirectoryEntry(stem, entries) ==
  [kind |-> "directory", stem |-> stem, ext |-> "", entries |-> entries]

EntryName(entry) == entry.stem \o entry.ext

\* a scan that takes every file for a note
endsWithAnything(entry, suffix) == TRUE

\* entry.name.endsWith(suffix)
endsWith(entry, suffix) == entry.ext = suffix

\* limit stops the scan after that many entries (NoLimit: the whole directory)
NoLimit == -1

RECURSIVE scanDirectory(_, _, _, _, _)
scanDirectory(entries, parentId, pathSegments, acc, limit) ==
  IF entries = <<>> \/ acc.counter = limit THEN acc
  ELSE
    LET entry == Head(entries)
        id == acc.next
        entryPath == Append(pathSegments, EntryName(entry))
        visited == [acc EXCEPT !.next = id + 1, !.counter = @ + 1]
        after ==
          IF entry.kind = "file"
            THEN IF endsWith(entry, ".md") \/ endsWith(entry, ".txt")
                    \/ endsWith(entry, ".markdown")
                   THEN [visited EXCEPT
                           !.nodes = @ @@ (id :> FileSystemNode(parentId, EntryName(entry),
                                                    FILE, entry.text, Undefined,
                                                    entry.lastModified)),
                           !.fileHandleMap = @ @@ (id :> entryPath),
                           !.nodePathMap = @ @@ (id :> entryPath)]
                   ELSE visited
            ELSE scanDirectory(entry.entries, id, entryPath,
                   [visited EXCEPT
                      !.nodes = @ @@ (id :> FileSystemNode(parentId, EntryName(entry),
                                               FOLDER, Undefined, "false", id)),
                      !.nodePathMap = @ @@ (id :> entryPath)],
                   limit)
    IN scanDirectory(Tail(entries), parentId, pathSegments, after, limit)

\* openAndSync after persistHandle, when the scan has visited limit entries
openAndSyncUpTo(dir, rootId, limit) ==
  scanDirectory(dir.entries, rootId, <<>>,
    [nodes |-> (rootId :> FileSystemNode(Null, dir.stem, FOLDER, Undefined, "true", rootId)),
     next |-> rootId + 1,
     counter |-> 0,
     fileHandleMap |-> <<>>,
     nodePathMap |-> (rootId :> <<>>)],
    limit)

\* openAndSync on the directory the user picked; rootId is the next fresh id
openAndSync(dir, rootId) == openAndSyncUpTo(dir, rootId, NoLimit)

\* directories offered to the picker
Directories ==
  { DirectoryEntry("notes", << FileEntry("a", ".md", "hello") >>),
    DirectoryEntry("notes", << FileEntry("a", ".md", "hello"),
                               DirectoryEntry("b", << FileEntry("c", ".txt", "world"),
                                                      FileEntry("d", ".bin", "") >>) >>) }

(***************************************************************************)
(* versionHistory.  A snapshot is kept without its id and its timestamp:   *)
(* the store is an array in the order of recording.                        *)
(***************************************************************************)
VersionSnapshot(nodeId, name, content) == [nodeId |-> nodeId, content |-> content, name |-> name]

\* all.filter(s => s.nodeId === nodeId)
versionsOf(all, nodeId) == SelectSeq(all, LAMBDA s : s.nodeId = nodeId)
otherVersions(all, nodeId) == SelectSeq(all, LAMBDA s : s.nodeId # nodeId)

\* saveVersion without the comparison with the last snapshot
isDuplicateNever(nodeVersions, content) == FALSE

\* saveVersion: don't save duplicate of last snapshot
isDuplicate(nodeVersions, content) ==
  Len(nodeVersions) > 0 /\ nodeVersions[Len(nodeVersions)].content = content

\* slice that keeps everything
sliceAll(seq, n) == seq

\* Array.prototype.slice(-n)
sliceLast(seq, n) == IF Len(seq) > n THEN SubSeq(seq, Len(seq) - n + 1, Len(seq)) ELSE seq

saveVersion(all, nodeId, name, content) ==
  LET nodeVersions == versionsOf(all, nodeId)
  IN IF isDuplicate(nodeVersions, content) THEN all
     ELSE otherVersions(all, nodeId)
            \o sliceLast(Append(nodeVersions, VersionSnapshot(nodeId, name, content)),
                         MAX_VERSIONS)

\* getVersions: the snapshots of a node, oldest first
getVersions(all, nodeId) == versionsOf(all, nodeId)

clearVersions(all, nodeId) == otherVersions(all, nodeId)

\* the version history effect with the test of the envelope left out
historySkipsEmptyOnly(ns, active) ==
  \/ active = Null
  \/ active \notin DOMAIN ns
  \/ ns[active].type # FILE
  \/ ns[active].content \in {Undefined, ""}

\* version history effect: the early returns
historySkips(ns, active) ==
  \/ active = Null
  \/ active \notin DOMAIN ns
  \/ ns[active].type # FILE
  \/ ns[active].content \in {Undefined, ""}
  \/ isEncryptedContent(ns[active].content)

\* version history effect on [nodes, activeNodeId]: the cleanup clears the
\* timer of the run before, the run arms one for the active note
HistoryEffect(old, ns, active) ==
  IF historySkips(ns, active) THEN {}
  ELSE {[id |-> active, name |-> ns[active].name, content |-> ns[active].content,
         remaining |-> HistoryDelay]}

(***************************************************************************)
(* Effects that run after a render.  A setNodes that produced a new array  *)
(* re-runs the auto-push effect; a gesture that handed the same array back *)
(* re-runs nothing.                                                        *)
(***************************************************************************)
\* the effect on [nodes] that drops the cache entries of nodes no longer in
\* the tree: it walks the keys of decryptedNotes
evict(m, ns) ==
  Restrict(m, DOMAIN m \ {id \in DOMAIN decryptedNotes : id \notin DOMAIN ns})

CacheEviction(ns) ==
  /\ decryptedNotes' = evict(decryptedNotes, ns)
  /\ decryptedNotePasswords' = evict(decryptedNotePasswords, ns)
  /\ encryptedContentVersion' = evict(encryptedContentVersion, ns)

TreeChanged ==
  /\ autoPushTimer' = AutoPushEffect(autoPushTimer, nodes', syncUser, settings,
                                     cloudHydrated, isCloudMutating)
  /\ historyTimer' = HistoryEffect(historyTimer, nodes', activeNodeId')
  /\ UNCHANGED history
  /\ sinceChange' = 0
  /\ CacheEviction(nodes')
  /\ UNCHANGED syncVars

\* the same array: of the effects only the version history effect runs, and
\* only when the active note has changed
TreeSame ==
  /\ historyTimer' = IF activeNodeId' = activeNodeId THEN historyTimer
                     ELSE HistoryEffect(historyTimer, nodes, activeNodeId')
  /\ UNCHANGED <<history, autoPushTimer, sinceChange, cacheVars, syncVars>>

Spend(op) == ops > 0 /\ ops' = ops - 1 /\ lastOp' = op

\* gestures other than the folder import and the editor leave the directory
\* adapter and the pending encryptions alone
NoImport == UNCHANGED <<localVars, encTasks>>

(***************************************************************************)
(* Actions of the node tree store (user gestures of the sidebar / editor). *)
(***************************************************************************)
\* "new note" / "new folder" buttons of the sidebar header and footer.
CreateAtRoot(type) ==
  /\ nextId <= MaxId
  /\ Spend(Op("CreateNode", nextId, Null))
  /\ NoImport
  /\ nodes' = handleCreateNode(nodes, nextId, Null, type)
  /\ activeNodeId' = IF type = FILE THEN nextId ELSE activeNodeId
  /\ nextId' = nextId + 1
  /\ TreeChanged

\* context menu of a folder: create, then open the folder if it is closed.
CreateInFolder(parentId, type) ==
  /\ nextId <= MaxId
  /\ parentId \in Folders(nodes)
  /\ Spend(Op("CreateNode", nextId, parentId))
  /\ NoImport
  /\ LET created == handleCreateNode(nodes, nextId, parentId, type)
     IN nodes' = IF nodes[parentId].isOpen # "true"
                   THEN handleToggleFolder(created, parentId) ELSE created
  /\ activeNodeId' = IF type = FILE THEN nextId ELSE activeNodeId
  /\ nextId' = nextId + 1
  /\ TreeChanged

RenameNode(id, name) ==
  /\ id \in Ids(nodes)
  /\ Spend(Op("RenameNode", id, Null))
  /\ NoImport
  /\ nodes' = handleRenameNode(nodes, id, name)
  /\ UNCHANGED <<activeNodeId, nextId>>
  /\ TreeChanged

\* onDrop of a tree item: did is the dragged node, target the item dropped
\* on; a closed folder that receives a drop is opened.
DropNode(did, target) ==
  /\ did \in Ids(nodes) /\ target \in Ids(nodes) /\ did # target
  /\ LET newParentId == IF nodes[target].type = FOLDER THEN target
                        ELSE nodes[target].parentId
         rejected == isDesc(nodes, newParentId, did)
         moved == handleMoveNode(nodes, did, newParentId)
         toggles == nodes[target].type = FOLDER /\ nodes[target].isOpen # "true"
     IN /\ Spend(Op("MoveNode", did, newParentId))
        /\ NoImport
        /\ nodes' = IF toggles THEN handleToggleFolder(moved, target) ELSE moved
        /\ UNCHANGED <<activeNodeId, nextId>>
        /\ IF rejected /\ ~toggles THEN TreeSame ELSE TreeChanged

DeleteNode(id) ==
  /\ id \in Ids(nodes)
  /\ Spend(Op("DeleteNode", id, Cardinality(DOMAIN nodes)))
  /\ NoImport
  /\ nodes' = handleDeleteNode(nodes, id)
  /\ activeNodeId' = IF activeNodeId = id THEN Null ELSE activeNodeId
  /\ UNCHANGED nextId
  /\ TreeChanged

ToggleFolder(id) ==
  /\ id \in Folders(nodes)
  /\ Spend(Op("ToggleFolder", id, Null))
  /\ NoImport
  /\ nodes' = handleToggleFolder(nodes, id)
  /\ UNCHANGED <<activeNodeId, nextId>>
  /\ TreeChanged

\* handleSelectNode: the tree is handed back as it is.
SelectNode(id) ==
  /\ id \in Files(nodes) /\ id # activeNodeId
  /\ Spend(Op("SelectNode", id, Null))
  /\ NoImport
  /\ activeNodeId' = id
  /\ UNCHANGED <<nodes, nextId>>
  /\ TreeSame

\* the effects of a new tree when the handler has also written the maps: the
\* eviction effect runs after the handler and walks the keys of decryptedNotes
evictFrom(m, keys, ns) == Restrict(m, DOMAIN m \ {id \in keys : id \notin DOMAIN ns})

TreeChangedAfter(notes, passwords, versions) ==
  /\ autoPushTimer' = AutoPushEffect(autoPushTimer, nodes', syncUser, settings,
                                     cloudHydrated, isCloudMutating)
  /\ historyTimer' = HistoryEffect(historyTimer, nodes', activeNodeId')
  /\ UNCHANGED history
  /\ sinceChange' = 0
  /\ decryptedNotes' = evictFrom(notes, DOMAIN notes, nodes')
  /\ decryptedNotePasswords' = evictFrom(passwords, DOMAIN notes, nodes')
  /\ encryptedContentVersion' = evictFrom(versions, DOMAIN notes, nodes')
  /\ UNCHANGED syncVars

mapDelete(m, k) == Restrict(m, DOMAIN m \ {k})

\* localSyncService.writeBack: without a handle nothing is written; a write
\* that fails leaves the file as it was
writeBack(files, fileHandleMap, nodeId, content, failed) ==
  IF nodeId \notin DOMAIN fileHandleMap \/ failed THEN files
  ELSE mapSet(files, nodeId, content)

isSynced(sync) == sync.rootDirHandle # "null"

\* disconnect, up to its await
disconnect == [rootDirHandle |-> "null", fileHandleMap |-> <<>>, nodePathMap |-> <<>>]

\* how a call of writeBack ends: no handle (a warning, the promise
\* resolves), a rejection of createWritable / write / close, or the write
writeBackOutcome(fileHandleMap, nodeId, failed) ==
  IF nodeId \notin DOMAIN fileHandleMap THEN "HandleMissing"
  ELSE IF failed THEN "error" ELSE "written"

\* a handler that undoes its setNodes when the write has not happened
afterWriteBackUndo(ns, prev, outcome) == IF outcome = "written" THEN ns ELSE prev

\* setNodes(...) comes before writeBack(...).catch(() => {}): the tree is what
\* setNodes made it, whatever the outcome
afterWriteBack(ns, prev, outcome) == ns

\* if (localSync.isSynced() && localSyncNodeIds.current.has(id))
\*   localSync.writeBack(id, content).catch(() => {})
WriteBackAs(id, content, failed) ==
  disk' = IF isSynced(localSync) /\ id \in localSyncNodeIds
            THEN writeBack(disk, localSync.fileHandleMap, id, content, failed)
            ELSE disk

WriteBack(id, content) == \E failed \in BOOLEAN : WriteBackAs(id, content, failed)

\* a promise of encryptNoteContent or decryptNoteContent and what its
\* continuation closed over; n tells two promises of equal arguments apart
FreshEncTask == CHOOSE i \in 1..(Cardinality(encTasks) + 1) : \A t \in encTasks : t.n # i

EncTask(kind, id, version, content, password, salt) ==
  [n |-> FreshEncTask, kind |-> kind, id |-> id, version |-> version, content |-> content,
   password |-> password, salt |-> salt]

\* the test of the target taken to be false whatever the content is
writesPlainAlways(target) == TRUE

\* handleUpdateContent and handleRestoreVersion write the content they are
\* given into the tree only if (!isEncryptedContent(target.content))
writesPlain(target) == ~isEncryptedContent(target.content)

\* the effect on [nodes] that writes the persistence record: JSON.stringify
\* leaves out the fields that are undefined
stringify(node) ==
  [f \in {"parentId", "name", "type", "createdAt"}
          \cup (IF node.content = Undefined THEN {} ELSE {"content"})
          \cup (IF node.isOpen = Undefined THEN {} ELSE {"isOpen"}) |-> node[f]]

\* handleUpdateContent from the editor, which edits the active node.  The
\* content of a plain note goes into the tree at once; the content of an
\* unlocked encrypted note goes into the cache, and its encryption is started
\* under the next version number of the note.
UpdateContent(content) ==
  /\ activeNodeId \in Files(nodes)
  /\ Spend(Op("UpdateContent", activeNodeId, content))
  /\ UNCHANGED <<activeNodeId, nextId, localSync, localSyncNodeIds, localTasks>>
  /\ LET id == activeNodeId
         password == mapGet(decryptedNotePasswords, id, "")
         version == mapGet(encryptedContentVersion, id, 0) + 1
     IN IF writesPlain(nodes[id])
          THEN /\ \E failed \in BOOLEAN :
                    /\ nodes' = afterWriteBack(setContent(nodes, id, content), nodes,
                                   writeBackOutcome(localSync.fileHandleMap, id, failed))
                    /\ WriteBackAs(id, content, failed)
               /\ UNCHANGED encTasks
               /\ TreeChanged
          ELSE IF password = ""
            THEN /\ UNCHANGED <<nodes, encTasks, disk>>
                 /\ TreeSame
            ELSE /\ \E salt \in Salts :
                      encTasks' = encTasks \cup
                        {EncTask("update", id, version, content, password, salt)}
                 /\ decryptedNotes' = mapSet(decryptedNotes, id, content)
                 /\ encryptedContentVersion' = mapSet(encryptedContentVersion, id, version)
                 /\ UNCHANGED <<nodes, historyVars, disk, decryptedNotePasswords, autoPushTimer,
                                sinceChange, syncVars>>

\* encryptNoteContent of handleUpdateContent resolves
ReencryptDone(t) ==
  /\ t \in encTasks /\ t.kind = "update"
  /\ lastOp' = Op("ReencryptDone", t.id, t.version)
  /\ encTasks' = encTasks \ {t}
  /\ UNCHANGED <<activeNodeId, nextId, localSync, localSyncNodeIds, localTasks, ops>>
  /\ IF staleEncryption(encryptedContentVersion, t.id, t.version)
       THEN /\ UNCHANGED <<nodes, disk>>
            /\ TreeSame
       ELSE /\ nodes' = setContent(nodes, t.id,
                                   encryptNoteContent(t.content, t.password, t.salt))
            /\ WriteBack(t.id, encryptNoteContent(t.content, t.password, t.salt))
            /\ TreeChanged

\* handleEncryptNote up to its await, from the toolbar of the editor, which
\* offers it for a note that is not encrypted; the prompt and the trim turn
\* an empty password down
EncryptNote(password) ==
  /\ activeNodeId \in Files(nodes)
  /\ ~isEncryptedContent(nodes[activeNodeId].content)
  /\ password # ""
  /\ Spend(Op("EncryptNote", activeNodeId, password))
  /\ \E salt \in Salts :
       encTasks' = encTasks \cup
         {EncTask("encrypt", activeNodeId, 0,
                  IF nodes[activeNodeId].content = Undefined THEN ""
                  ELSE nodes[activeNodeId].content,
                  password, salt)}
  /\ UNCHANGED <<treeVars, historyVars, localVars>>
  /\ TreeSame

\* handleEncryptNote after its await
EncryptDone(t) ==
  /\ t \in encTasks /\ t.kind = "encrypt"
  /\ lastOp' = Op("EncryptDone", t.id, Null)
  /\ encTasks' = encTasks \ {t}
  /\ nodes' = handleEncryptNote(nodes, t.id, encryptNoteContent(t.content, t.password, t.salt))
  /\ WriteBack(t.id, encryptNoteContent(t.content, t.password, t.salt))
  /\ UNCHANGED <<activeNodeId, nextId, localSync, localSyncNodeIds, localTasks, ops>>
  /\ TreeChangedAfter(mapSet(decryptedNotes, t.id, t.content),
                      mapSet(decryptedNotePasswords, t.id, t.password),
                      encryptedContentVersion)

\* handleDecryptNote up to its await, from the lock screen, which the editor
\* shows for an encrypted note that is not unlocked
DecryptNote(password) ==
  /\ activeNodeId \in Files(nodes)
  /\ isEncryptedContent(nodes[activeNodeId].content)
  /\ activeNodeId \notin DOMAIN decryptedNotes
  /\ password # ""
  /\ Spend(Op("DecryptNote", activeNodeId, password))
  /\ encTasks' = encTasks \cup
       {EncTask("decrypt", activeNodeId, 0, nodes[activeNodeId].content, password, "")}
  /\ UNCHANGED <<treeVars, historyVars, localVars>>
  /\ TreeSame

\* handleDecryptNote after its await: the plaintext and the password go into
\* the maps, or the catch shows the message of the error
DecryptDone(t) ==
  /\ t \in encTasks /\ t.kind = "decrypt"
  /\ encTasks' = encTasks \ {t}
  /\ LET result == decryptNoteContent(t.content, t.password)
     IN IF result.threw
          THEN /\ lastOp' = Op("DecryptDone", t.id, result.message)
               /\ UNCHANGED <<decryptedNotes, decryptedNotePasswords>>
          ELSE /\ lastOp' = Op("DecryptDone", t.id, "ok")
               /\ decryptedNotes' = mapSet(decryptedNotes, t.id, result.plain)
               /\ decryptedNotePasswords' = mapSet(decryptedNotePasswords, t.id, t.password)
  /\ UNCHANGED <<treeVars, historyVars, localVars, encryptedContentVersion, autoPushTimer, sinceChange,
                 syncVars, ops>>

\* handleLockNote up to its await, from the toolbar of the editor of an
\* unlocked encrypted note; without a cached plaintext and password it only
\* deletes the entries of the note
LockNote ==
  /\ activeNodeId \in Files(nodes)
  /\ isEncryptedContent(nodes[activeNodeId].content)
  /\ activeNodeId \in DOMAIN decryptedNotes
  /\ Spend(Op("LockNote", activeNodeId, Null))
  /\ UNCHANGED <<treeVars, historyVars, localVars, autoPushTimer, sinceChange, syncVars>>
  /\ LET id == activeNodeId
     IN IF mapGet(decryptedNotePasswords, id, "") # ""
          THEN /\ \E salt \in Salts :
                    encTasks' = encTasks \cup
                      {EncTask("lock", id, 0, decryptedNotes[id],
                               decryptedNotePasswords[id], salt)}
               /\ UNCHANGED cacheVars
          ELSE /\ decryptedNotes' = mapDelete(decryptedNotes, id)
               /\ decryptedNotePasswords' = mapDelete(decryptedNotePasswords, id)
               /\ encryptedContentVersion' = mapDelete(encryptedContentVersion, id)
               /\ UNCHANGED encTasks

\* handleLockNote after its await
LockDone(t) ==
  /\ t \in encTasks /\ t.kind = "lock"
  /\ lastOp' = Op("LockDone", t.id, Null)
  /\ encTasks' = encTasks \ {t}
  /\ nodes' = setContent(nodes, t.id, encryptNoteContent(t.content, t.password, t.salt))
  /\ WriteBack(t.id, encryptNoteContent(t.content, t.password, t.salt))
  /\ UNCHANGED <<activeNodeId, nextId, localSync, localSyncNodeIds, localTasks, ops>>
  /\ TreeChangedAfter(mapDelete(decryptedNotes, t.id),
                      mapDelete(decryptedNotePasswords, t.id),
                      mapDelete(encryptedContentVersion, t.id))

\* handleRestoreVersion from the version history panel of the active note
RestoreVersion(content) ==
  /\ activeNodeId \in Files(nodes)
  /\ \E k \in DOMAIN getVersions(history, activeNodeId) :
       getVersions(history, activeNodeId)[k].content = content
  /\ Spend(Op("RestoreVersion", activeNodeId, content))
  /\ UNCHANGED <<activeNodeId, nextId, localVars>>
  /\ LET id == activeNodeId
         password == mapGet(decryptedNotePasswords, id, "")
     IN IF writesPlain(nodes[id])
          THEN /\ nodes' = setContent(nodes, id, content)
               /\ UNCHANGED encTasks
               /\ TreeChanged
          ELSE IF password = ""
            THEN /\ UNCHANGED <<nodes, encTasks>>
                 /\ TreeSame
            ELSE /\ \E salt \in Salts :
                      encTasks' = encTasks \cup
                        {EncTask("restore", id, 0, content, password, salt)}
                 /\ decryptedNotes' = mapSet(decryptedNotes, id, content)
                 /\ UNCHANGED <<nodes, historyVars, decryptedNotePasswords, encryptedContentVersion,
                                autoPushTimer, sinceChange, syncVars>>

\* encryptNoteContent of handleRestoreVersion resolves
RestoreDone(t) ==
  /\ t \in encTasks /\ t.kind = "restore"
  /\ lastOp' = Op("RestoreDone", t.id, Null)
  /\ encTasks' = encTasks \ {t}
  /\ nodes' = setContent(nodes, t.id, encryptNoteContent(t.content, t.password, t.salt))
  /\ WriteBack(t.id, encryptNoteContent(t.content, t.password, t.salt))
  /\ UNCHANGED <<activeNodeId, nextId, localSync, localSyncNodeIds, localTasks, ops>>
  /\ TreeChanged

\* encryptNoteContent rejects: handleUpdateContent and handleRestoreVersion
\* show a toast, handleEncryptNote and handleLockNote stop at the await
EncryptRejected(t) ==
  /\ t \in encTasks /\ t.kind # "decrypt"
  /\ lastOp' = Op("EncryptRejected", t.id, t.kind)
  /\ encTasks' = encTasks \ {t}
  /\ UNCHANGED <<treeVars, historyVars, localVars, cacheVars, autoPushTimer, sinceChange, syncVars, ops>>

\* what a scan has put into a map since it had visited one entry less
\* (before the first entry: what openAndSync sets after persistHandle)
scanned(dir, rootId, visited, field) ==
  LET now == openAndSyncUpTo(dir, rootId, visited)[field]
      before == IF visited = 0 THEN <<>> ELSE openAndSyncUpTo(dir, rootId, visited - 1)[field]
  IN Restrict(now, DOMAIN now \ DOMAIN before)

\* handleOpenLocalFolder, the picker granted: openAndSync takes the handle,
\* clears the maps and awaits persistHandle
OpenLocalFolder(dir) ==
  LET scan == openAndSync(dir, nextId)
  IN /\ scan.next - 1 <= MaxId
     /\ Spend(Op("OpenLocalFolder", nextId, dir.stem))
     /\ localSync' = [rootDirHandle |-> dir.stem, fileHandleMap |-> <<>>, nodePathMap |-> <<>>]
     /\ disk' = <<>>
     /\ localTasks' = localTasks \cup
          {[kind |-> "scan", dir |-> dir, rootId |-> nextId, visited |-> -1]}
     /\ nextId' = scan.next
     /\ UNCHANGED <<nodes, activeNodeId, localSyncNodeIds, encTasks>>
     /\ TreeSame

\* persistHandle has resolved (visited becomes 0), or scanDirectory has
\* visited one more entry: the handle and the path of the entry go into the
\* maps as they are at that time
ScanStep(t) ==
  /\ t \in localTasks /\ t.kind = "scan"
  /\ t.visited < openAndSync(t.dir, t.rootId).counter
  /\ lastOp' = Op("ScanStep", t.rootId, t.visited + 1)
  /\ localTasks' = (localTasks \ {t}) \cup {[t EXCEPT !.visited = @ + 1]}
  /\ LET handles == scanned(t.dir, t.rootId, t.visited + 1, "fileHandleMap")
         paths == scanned(t.dir, t.rootId, t.visited + 1, "nodePathMap")
         read == openAndSync(t.dir, t.rootId).nodes
     IN /\ localSync' = [localSync EXCEPT !.fileHandleMap = handles @@ @,
                                          !.nodePathMap = paths @@ @]
        /\ disk' = [i \in DOMAIN handles |-> read[i].content] @@ disk
  /\ UNCHANGED <<treeVars, localSyncNodeIds, encTasks, ops>>
  /\ TreeSame

\* persistHandle, getFile or text rejects: openAndSync rejects and
\* handleOpenLocalFolder shows a toast
ScanFail(t) ==
  /\ t \in localTasks /\ t.kind = "scan"
  /\ t.visited < openAndSync(t.dir, t.rootId).counter
  /\ lastOp' = Op("ScanFail", t.rootId, t.visited)
  /\ localTasks' = localTasks \ {t}
  /\ UNCHANGED <<treeVars, localSync, localSyncNodeIds, disk, encTasks, ops>>
  /\ TreeSame

\* openAndSync resolves: handleOpenLocalFolder remembers the ids and appends
\* the nodes
OpenLocalFolderDone(t) ==
  /\ t \in localTasks /\ t.kind = "scan"
  /\ LET scan == openAndSync(t.dir, t.rootId)
     IN /\ t.visited = scan.counter
        /\ lastOp' = Op("OpenLocalFolderDone", t.rootId, scan.counter)
        /\ localSyncNodeIds' = localSyncNodeIds \cup DOMAIN scan.nodes
        /\ nodes' = nodes @@ scan.nodes
  /\ localTasks' = localTasks \ {t}
  /\ UNCHANGED <<activeNodeId, nextId, localSync, disk, encTasks, ops>>
  /\ TreeChanged

\* handleDisconnectLocal: disconnect drops the handle and clears the maps,
\* then awaits clearHandle
DisconnectLocal ==
  /\ Spend(Op("DisconnectLocal", Null, Null))
  /\ localSync' = disconnect
  /\ disk' = <<>>
  /\ localTasks' = localTasks \cup {[kind |-> "disconnect"]}
  /\ UNCHANGED <<treeVars, localSyncNodeIds, encTasks>>
  /\ TreeSame

\* disconnect settles: resolved, handleDisconnectLocal clears the ids;
\* rejected (openIDB failed), it stops there
DisconnectDone(t, error) ==
  /\ t \in localTasks /\ t.kind = "disconnect"
  /\ lastOp' = Op("DisconnectDone", Null, error)
  /\ localTasks' = localTasks \ {t}
  /\ localSyncNodeIds' = IF error THEN localSyncNodeIds ELSE {}
  /\ UNCHANGED <<treeVars, localSync, disk, encTasks, ops>>
  /\ TreeSame

\* the directory adapter and the handlers that call it
NextLocal ==
  \/ \E d \in Directories : OpenLocalFolder(d)
  \/ \E t \in localTasks : ScanStep(t)
  \/ \E t \in localTasks : ScanFail(t)
  \/ \E t \in localTasks : OpenLocalFolderDone(t)
  \/ DisconnectLocal
  \/ \E t \in localTasks, error \in BOOLEAN : DisconnectDone(t, error)

(***************************************************************************)
(* Session gestures.  Each changes settings or syncUser, so the realtime   *)
(* effect, the hydration effect and the auto-push effect run again, in     *)
(* that order.                                                             *)
(***************************************************************************)
SessionEffects(user, endpoint, client) ==
  LET key == Key(user, endpoint)
      starts == hydrationStarts(key, cloudHydrationKey, cloudHydrated)
      \* subscribeToChanges and pullAll go through getClient
      client2 == IF key # NoKey THEN getClient(client, endpoint) ELSE client
  IN /\ starts => Room
     /\ supabaseClient' = client2
     /\ cloudHydrated' = IF key = NoKey THEN FALSE ELSE cloudHydrated
     /\ cloudHydrationKey' = IF key = NoKey THEN NoKey
                             ELSE IF starts THEN key ELSE cloudHydrationKey
     /\ isCloudMutating' = IF starts THEN TRUE ELSE isCloudMutating
     /\ unlockTimers' = IF starts THEN GuardStart(unlockTimers, cloudMutationUnlockTimer)
                        ELSE unlockTimers
     /\ cloudMutationUnlockTimer' = IF starts THEN NoTimer ELSE cloudMutationUnlockTimer
     /\ tasks' = IF starts
                   THEN tasks \cup {Task("hydrate", user, client2, NoRows, "fetch")}
                   ELSE tasks
     /\ autoPushTimer' = AutoPushEffect(autoPushTimer, nodes, user, endpoint,
                                        cloudHydrated', isCloudMutating')
     /\ UNCHANGED <<treeVars, historyVars, localVars, overlayVars, remoteRows, sinceChange>>

\* settings modal: storage mode buttons and the url / key fields
UpdateSettings(endpoint) ==
  /\ endpoint # settings
  /\ Spend(Op("UpdateSettings", Null, endpoint))
  /\ settings' = endpoint
  /\ UNCHANGED <<syncUser, sessionRestorePending>>
  /\ SessionEffects(syncUser, endpoint, supabaseClient)

\* handleCloudSignIn / handleCloudSignUp resolving with a user
CloudSignIn(user) ==
  /\ settings # "local" /\ syncUser = NoUser
  /\ Spend(Op("CloudSignIn", Null, user))
  /\ syncUser' = user
  /\ UNCHANGED <<settings, sessionRestorePending>>
  /\ SessionEffects(user, settings, getClient(supabaseClient, settings))

\* session restore effect: getSession resolves, with a user or with null
SessionRestored(user) ==
  /\ sessionRestorePending
  /\ sessionRestorePending' = FALSE
  /\ lastOp' = Op("SessionRestored", Null, user)
  /\ UNCHANGED <<settings, ops>>
  /\ IF user = NoUser
       THEN UNCHANGED <<treeVars, historyVars, localVars, overlayVars, syncUser, supabaseClient, hydrationVars, guardVars,
                        tasks, remoteRows, autoPushTimer, sinceChange>>
       ELSE /\ syncUser' = user
            /\ SessionEffects(user, settings, supabaseClient)

\* handleCloudSignOut: resets the refs and the client; the cleanup of the
\* realtime effect then calls unsubscribe, which goes through getClient.
CloudSignOut ==
  /\ settings # "local" /\ syncUser # NoUser
  /\ Spend(Op("CloudSignOut", Null, Null))
  /\ syncUser' = NoUser
  /\ UNCHANGED <<settings, sessionRestorePending>>
  /\ SessionEffects(NoUser, settings, getClient(NoClient, settings))

(***************************************************************************)
(* Guarded remote operations.                                              *)
(***************************************************************************)
\* withCloudMutationGuard up to the first await of the task
StartGuarded(task) ==
  /\ Room
  /\ isCloudMutating' = TRUE
  /\ unlockTimers' = GuardStart(unlockTimers, cloudMutationUnlockTimer)
  /\ cloudMutationUnlockTimer' = NoTimer
  /\ supabaseClient' = getClient(supabaseClient, settings)
  /\ tasks' = tasks \cup {task}

\* withCloudMutationGuard from the end of the task on
FinishGuarded(t, threw) ==
  /\ unlockTimers' = GuardFinally(unlockTimers, threw)
  /\ cloudMutationUnlockTimer' =
       IF unlockTimers' = unlockTimers THEN cloudMutationUnlockTimer
       ELSE FreshTimer(unlockTimers)
  /\ tasks' = tasks \ {t}
  /\ UNCHANGED isCloudMutating

\* handleCloudPush
CloudPush ==
  /\ CurrentKey # NoKey
  /\ Spend(Op("CloudPush", Null, Null))
  /\ StartGuarded(Task("push", syncUser, getClient(supabaseClient, settings), nodes, "delete"))
  /\ UNCHANGED <<treeVars, historyVars, localVars, overlayVars, settings, syncUser, sessionRestorePending, hydrationVars,
                 remoteRows, autoPushTimer, sinceChange>>

\* handleCloudPull
CloudPull ==
  /\ CurrentKey # NoKey
  /\ Spend(Op("CloudPull", Null, Null))
  /\ StartGuarded(Task("pull", syncUser, getClient(supabaseClient, settings), NoRows, "fetch"))
  /\ UNCHANGED <<treeVars, historyVars, localVars, overlayVars, settings, syncUser, sessionRestorePending, hydrationVars,
                 remoteRows, autoPushTimer, sinceChange>>

\* the timer of the auto-push effect fires
\* the callback of the version history effect: saveVersion with the name and
\* the content the effect has captured
HistoryFire(timer) ==
  /\ timer \in historyTimer /\ timer.remaining = 0
  /\ history' = saveVersion(history, timer.id, timer.name, timer.content)
  /\ historyTimer' = historyTimer \ {timer}
  /\ lastOp' = Op("HistoryFire", timer.id, timer.content)
  /\ UNCHANGED <<treeVars, localVars, overlayVars, cacheVars, syncVars, autoPushTimer,
                 sinceChange, ops>>

AutoPushFire(timer) ==
  /\ timer \in autoPushTimer /\ timer.remaining = 0
  /\ lastOp' = Op("AutoPush", Null, Null)
  /\ StartGuarded(Task("autopush", timer.user, getClient(supabaseClient, timer.endpoint),
                       timer.nodes, "delete"))
  /\ autoPushTimer' = autoPushTimer \ {timer}
  /\ UNCHANGED <<treeVars, historyVars, localVars, overlayVars, settings, syncUser, sessionRestorePending, hydrationVars,
                 remoteRows, sinceChange, ops>>

\* pushAll, first statement: delete every row of the user
PushDelete(t, error) ==
  /\ t \in tasks /\ t.kind \in {"push", "autopush"} /\ t.phase = "delete"
  /\ lastOp' = Op("PushDelete", t.id, error)
  /\ IF error \/ DOMAIN t.nodes = {}
       THEN FinishGuarded(t, error)
       ELSE /\ tasks' = (tasks \ {t}) \cup {[t EXCEPT !.phase = "insert"]}
            /\ UNCHANGED guardVars
  /\ remoteRows' =
       IF error THEN remoteRows
       ELSE [remoteRows EXCEPT ![t.endpoint] =
               Restrict(@, {i \in DOMAIN @ : @[i].user_id # t.user})]
  /\ UNCHANGED <<treeVars, historyVars, localVars, overlayVars, sessionVars, hydrationVars, autoPushTimer, sinceChange, ops>>

\* pushAll, second statement: bulk insert; a row whose id is already in the
\* table violates the primary key and fails the statement.
PushInsert(t, error) ==
  /\ t \in tasks /\ t.kind \in {"push", "autopush"} /\ t.phase = "insert"
  /\ (DOMAIN t.nodes \cap DOMAIN remoteRows[t.endpoint] # {}) => error
  /\ lastOp' = Op("PushInsert", t.id, error)
  /\ FinishGuarded(t, error)
  /\ remoteRows' =
       IF error THEN remoteRows
       ELSE [remoteRows EXCEPT ![t.endpoint] = @ @@ rowsOf(t.nodes, t.user)]
  /\ UNCHANGED <<treeVars, historyVars, localVars, overlayVars, sessionVars, hydrationVars, autoPushTimer, sinceChange, ops>>

\* a pull delivered the rows: setNodes(cn) and the effects of the new tree
ReplaceAll(cn) ==
  /\ nodes' = cn
  /\ historyTimer' = HistoryEffect(historyTimer, cn, activeNodeId')
  /\ UNCHANGED history
  /\ sinceChange' = 0
  /\ CacheEviction(cn)
  /\ autoPushTimer' = AutoPushEffect(autoPushTimer, cn, syncUser, settings,
                                     cloudHydrated', isCloudMutating')

\* the pull of the hydration effect resolves or rejects
HydrateDone(t, error) ==
  /\ t \in tasks /\ t.kind = "hydrate"
  /\ lastOp' = Op("HydrateDone", t.id, error)
  /\ FinishGuarded(t, error)
  /\ LET cn == fetchAllNotes(remoteRows[t.endpoint], t.user, error)
     IN IF cn.threw
          THEN /\ cloudHydrationKey' = NoKey
               /\ cloudHydrated' = FALSE
               /\ UNCHANGED <<nodes, activeNodeId, historyVars, cacheVars, autoPushTimer, sinceChange>>
          ELSE /\ activeNodeId' = firstFile(cn.data)
               /\ cloudHydrated' = TRUE
               /\ UNCHANGED cloudHydrationKey
               /\ ReplaceAll(cn.data)
  /\ UNCHANGED <<nextId, localVars, encTasks, sessionVars, remoteRows, ops>>

\* the pull of handleCloudPull resolves or rejects
PullDone(t, error) ==
  /\ t \in tasks /\ t.kind = "pull"
  /\ lastOp' = Op("PullDone", t.id, error)
  /\ FinishGuarded(t, error)
  /\ LET cn == fetchAllNotes(remoteRows[t.endpoint], t.user, error)
     IN IF cn.threw
          THEN UNCHANGED <<nodes, activeNodeId, historyVars, cloudHydrated, cacheVars, autoPushTimer, sinceChange>>
          ELSE /\ activeNodeId' = Null
               /\ cloudHydrated' = TRUE
               /\ ReplaceAll(cn.data)
  /\ UNCHANGED <<nextId, localVars, encTasks, sessionVars, cloudHydrationKey, remoteRows, ops>>

(***************************************************************************)
(* Realtime channel: the callback of subscribeToChanges.                   *)
(***************************************************************************)
RealtimeChange ==
  /\ CurrentKey # NoKey
  /\ Spend(Op("onChange", Null, Null))
  /\ IF onChangeIgnored(isCloudMutating)
       THEN UNCHANGED tasks
       ELSE /\ Room
            /\ tasks' = tasks \cup {Task("rtpull", syncUser, supabaseClient, NoRows, "fetch")}
  /\ UNCHANGED <<treeVars, historyVars, localVars, overlayVars, sessionVars, hydrationVars, guardVars, remoteRows,
                 autoPushTimer, sinceChange>>

RealtimePullDone(t, error) ==
  /\ t \in tasks /\ t.kind = "rtpull"
  /\ lastOp' = Op("RealtimePullDone", t.id, error)
  /\ tasks' = tasks \ {t}
  /\ UNCHANGED <<activeNodeId, nextId, localVars, encTasks, sessionVars, hydrationVars, guardVars,
                 remoteRows, ops>>
  /\ LET cn == fetchAllNotes(remoteRows[t.endpoint], t.user, error)
     IN IF cn.threw
          THEN UNCHANGED <<nodes, historyVars, cacheVars, autoPushTimer, sinceChange>>
          ELSE ReplaceAll(cn.data)

(***************************************************************************)
(* Timers and time.                                                        *)
(***************************************************************************)
\* the release timer of withCloudMutationGuard fires
UnlockTimerFire(timer) ==
  /\ timer \in unlockTimers /\ timer.remaining = 0
  /\ lastOp' = Op("UnlockTimer", timer.id, Null)
  /\ isCloudMutating' = FALSE
  /\ cloudMutationUnlockTimer' = NoTimer
  /\ unlockTimers' = unlockTimers \ {timer}
  /\ UNCHANGED <<treeVars, historyVars, localVars, overlayVars, sessionVars, hydrationVars, tasks, remoteRows,
                 autoPushTimer, sinceChange, ops>>

Elapse(timer) ==
  [timer EXCEPT !.remaining = IF @ > TickMs THEN @ - TickMs ELSE 0]

\* time passes in steps of TickMs while a timer of the cloud sync is pending;
\* with the version history timer alone, it passes up to the deadline
ElapseHistory(timer) ==
  IF unlockTimers \cup autoPushTimer = {} THEN [timer EXCEPT !.remaining = 0]
  ELSE Elapse(timer)

\* time passes while a timer is pending; a timer that is due fires before
\* time moves on.  sinceChange counts up to the length of the window, and
\* only while an auto-push timer is pending: it is read only when one fires.
Tick ==
  /\ unlockTimers \cup autoPushTimer \cup historyTimer # {}
  /\ \A t \in unlockTimers \cup autoPushTimer : t.remaining > 0
  /\ \A t \in historyTimer : t.remaining > 0
  /\ unlockTimers' = {Elapse(t) : t \in unlockTimers}
  /\ autoPushTimer' = {Elapse(t) : t \in autoPushTimer}
  /\ historyTimer' = {ElapseHistory(t) : t \in historyTimer}
  /\ UNCHANGED history
  /\ sinceChange' = IF autoPushTimer = {} THEN sinceChange
                    ELSE IF sinceChange + TickMs > AutoPushDelay THEN AutoPushDelay
                    ELSE sinceChange + TickMs
  /\ lastOp' = Op("Tick", Null, Null)
  /\ UNCHANGED <<treeVars, localVars, overlayVars, sessionVars, hydrationVars, isCloudMutating,
                 cloudMutationUnlockTimer, tasks, remoteRows, ops>>

(***************************************************************************)
(* Initial states and specifications.                                      *)
(***************************************************************************)
\* a tree pushed by an earlier session of the account
seedNodes ==
  (1 :> FileSystemNode(Null, "Welcome", FOLDER, Undefined, "true", 0)) @@
  (2 :> FileSystemNode(1, "Start Here", FILE, "x", "false", 0))

InitStore ==
  /\ nodes = initialNodes
  /\ history = <<>>
  /\ historyTimer = HistoryEffect({}, initialNodes, 2)
  /\ decryptedNotes = <<>>
  /\ decryptedNotePasswords = <<>>
  /\ encryptedContentVersion = <<>>

InitRest ==
  /\ activeNodeId = 2
  /\ nextId = 4
  /\ localSync = [rootDirHandle |-> "null", fileHandleMap |-> <<>>, nodePathMap |-> <<>>]
  /\ localSyncNodeIds = {}
  /\ disk = <<>>
  /\ localTasks = {}
  /\ encTasks = {}
  /\ syncUser = NoUser
  /\ cloudHydrated = FALSE
  /\ cloudHydrationKey = NoKey
  /\ isCloudMutating = FALSE
  /\ cloudMutationUnlockTimer = NoTimer
  /\ unlockTimers = {}
  /\ autoPushTimer = {}
  /\ tasks = {}
  /\ remoteRows = [e \in Endpoints |-> IF e = "e1" THEN rowsOf(seedNodes, "u1") ELSE NoRows]
  /\ sinceChange = 0
  /\ lastOp = Op("init", Null, Null)

InitCommon == InitStore /\ InitRest

\* the node tree store on its own: the default settings, storage mode local
InitTree ==
  /\ InitCommon
  /\ settings = "local"
  /\ supabaseClient = NoClient
  /\ sessionRestorePending = FALSE
  /\ ops = MaxOps

NextTree ==
  \/ \E t \in {FILE, FOLDER} : CreateAtRoot(t)
  \/ \E p \in Ids(nodes), t \in {FILE, FOLDER} : CreateInFolder(p, t)
  \/ \E i \in Ids(nodes), n \in Names : RenameNode(i, n)
  \/ \E d \in Ids(nodes), t \in Ids(nodes) : DropNode(d, t)
  \/ \E i \in Ids(nodes) : DeleteNode(i)
  \/ \E i \in Ids(nodes) : ToggleFolder(i)
  \/ \E i \in Ids(nodes) : SelectNode(i)
  \/ \E c \in Contents : UpdateContent(c)
  \/ \E d \in Directories : OpenLocalFolder(d)
  \/ \E t \in localTasks : ScanStep(t)
  \/ \E t \in localTasks : OpenLocalFolderDone(t)

SpecTree == InitTree /\ [][NextTree]_vars

\* the coordinator: settings read from the persistence record, either the
\* defaults or cloud mode with credentials, whose session is being restored
\* the session has been open for the history delay: the welcome note is
\* recorded and no timer of the version history effect is pending
InitRecorded ==
  /\ nodes = initialNodes
  /\ history = << VersionSnapshot(2, initialNodes[2].name, initialNodes[2].content) >>
  /\ historyTimer = {}
  /\ decryptedNotes = <<>>
  /\ decryptedNotePasswords = <<>>
  /\ encryptedContentVersion = <<>>

InitSync ==
  /\ InitRecorded
  /\ InitRest
  /\ settings \in {"local", "e1"}
  /\ supabaseClient = IF settings = "local" THEN NoClient ELSE settings
  /\ sessionRestorePending = (settings # "local")
  /\ ops = MaxSyncOps

NextSession ==
  \/ \E e \in Endpoints \cup {"local"} : UpdateSettings(e)
  \/ \E u \in Users : CloudSignIn(u)
  \/ \E u \in Users \cup {NoUser} : SessionRestored(u)
  \/ CloudSignOut

NextRemote ==
  \/ CloudPush
  \/ CloudPull
  \/ \E t \in autoPushTimer : AutoPushFire(t)
  \/ \E t \in tasks, error \in BOOLEAN : PushDelete(t, error)
  \/ \E t \in tasks, error \in BOOLEAN : PushInsert(t, error)
  \/ \E t \in tasks, error \in BOOLEAN : HydrateDone(t, error)
  \/ \E t \in tasks, error \in BOOLEAN : PullDone(t, error)
  \/ RealtimeChange
  \/ \E t \in tasks, error \in BOOLEAN : RealtimePullDone(t, error)
  \/ \E t \in unlockTimers : UnlockTimerFire(t)
  \/ \E t \in historyTimer : HistoryFire(t)
  \/ Tick

NextSync ==
  \/ NextSession
  \/ NextRemote
  \/ \E i \in Ids(nodes) : SelectNode(i)
  \/ \E c \in Contents : UpdateContent(c)

SpecSync == InitSync /\ [][NextSync]_vars

\* the guarded operations under the scheduling of the event loop: time
\* passes, a timer that is due fires, and a request that was sent settles
NextGuard ==
  \/ \E u \in Users : CloudSignIn(u)
  \/ \E u \in Users \cup {NoUser} : SessionRestored(u)
  \/ CloudSignOut
  \/ \E c \in Contents : UpdateContent(c)
  \/ CloudPush
  \/ CloudPull
  \/ \E t \in autoPushTimer : AutoPushFire(t)
  \/ \E t \in tasks, error \in BOOLEAN : PushDelete(t, error)
  \/ \E t \in tasks, error \in BOOLEAN : PushInsert(t, error)
  \/ \E t \in tasks, error \in BOOLEAN : HydrateDone(t, error)
  \/ \E t \in tasks, error \in BOOLEAN : PullDone(t, error)
  \/ \E t \in unlockTimers : UnlockTimerFire(t)
  \/ \E t \in historyTimer : HistoryFire(t)
  \/ Tick

TimerFires ==
  \/ \E t \in unlockTimers : UnlockTimerFire(t)
  \/ \E t \in historyTimer : HistoryFire(t)
  \/ \E t \in autoPushTimer : AutoPushFire(t)

RequestSettles ==
  \E t \in tasks, error \in BOOLEAN :
    \/ PushDelete(t, error)
    \/ PushInsert(t, error)
    \/ HydrateDone(t, error)
    \/ PullDone(t, error)

SpecGuard ==
  /\ InitSync
  /\ [][NextGuard]_vars
  /\ WF_vars(Tick)
  /\ WF_vars(TimerFires)
  /\ WF_vars(RequestSettles)

\* the editor of an encrypted note: the welcome note has been encrypted by
\* handleEncryptNote and is still unlocked; storage mode local
InitEdit ==
  /\ \E password \in Passwords, salt \in Salts :
       /\ nodes = handleEncryptNote(initialNodes, 2,
                    encryptNoteContent(initialNodes[2].content, password, salt))
       /\ decryptedNotes = (2 :> initialNodes[2].content)
       /\ decryptedNotePasswords = (2 :> password)
  /\ encryptedContentVersion = <<>>
  /\ history = <<>>
  /\ historyTimer = {}
  /\ InitRest
  /\ settings = "local"
  /\ supabaseClient = NoClient
  /\ sessionRestorePending = FALSE
  /\ ops = MaxEdits

NextEdit ==
  \/ \E c \in Contents : UpdateContent(c)
  \/ \E t \in encTasks : ReencryptDone(t)
  \/ \E i \in Ids(nodes) : SelectNode(i)
  \/ CreateAtRoot(FILE)

SpecEdit == InitEdit /\ [][NextEdit]_vars

(***************************************************************************)
(* A second device of the account runs pushAll against the same table.     *)
(* Only its requests are modelled: they join the requests in flight, kind  *)
(* "peer", and take no part in the guard of this device.                   *)
(***************************************************************************)
\* a note created on the other device: handleCreateNode with its own UUID
peerNote == 101 :> FileSystemNode(Null, "new note", FILE, "", "true", 0)

\* trees the other device may hold after hydrating from the table
PeerTrees == {seedNodes, seedNodes @@ peerNote, peerNote}

\* pushAll is called on the other device
PeerPush(user, endpoint, ns) ==
  /\ Room
  /\ Spend(Op("PeerPush", Null, Null))
  /\ tasks' = tasks \cup {Task("peer", user, endpoint, ns, "delete")}
  /\ UNCHANGED <<treeVars, historyVars, localVars, overlayVars, sessionVars, hydrationVars, guardVars,
                 remoteRows, autoPushTimer, sinceChange>>

\* pushAll of the other device, first statement
PeerPushDelete(t, error) ==
  /\ t \in tasks /\ t.kind = "peer" /\ t.phase = "delete"
  /\ lastOp' = Op("PeerPushDelete", t.id, error)
  /\ tasks' = IF error \/ DOMAIN t.nodes = {}
                THEN tasks \ {t}
                ELSE (tasks \ {t}) \cup {[t EXCEPT !.phase = "insert"]}
  /\ remoteRows' =
       IF error THEN remoteRows
       ELSE [remoteRows EXCEPT ![t.endpoint] =
               Restrict(@, {i \in DOMAIN @ : @[i].user_id # t.user})]
  /\ UNCHANGED <<treeVars, historyVars, localVars, overlayVars, sessionVars, hydrationVars, guardVars,
                 autoPushTimer, sinceChange, ops>>

\* pushAll of the other device, second statement
PeerPushInsert(t, error) ==
  /\ t \in tasks /\ t.kind = "peer" /\ t.phase = "insert"
  /\ (DOMAIN t.nodes \cap DOMAIN remoteRows[t.endpoint] # {}) => error
  /\ lastOp' = Op("PeerPushInsert", t.id, error)
  /\ tasks' = tasks \ {t}
  /\ remoteRows' =
       IF error THEN remoteRows
       ELSE [remoteRows EXCEPT ![t.endpoint] = @ @@ rowsOf(t.nodes, t.user)]
  /\ UNCHANGED <<treeVars, historyVars, localVars, overlayVars, sessionVars, hydrationVars, guardVars,
                 autoPushTimer, sinceChange, ops>>

NextPeer ==
  \/ \E u \in Users, e \in Endpoints, ns \in PeerTrees : PeerPush(u, e, ns)
  \/ \E t \in tasks, error \in BOOLEAN : PeerPushDelete(t, error)
  \/ \E t \in tasks, error \in BOOLEAN : PeerPushInsert(t, error)

\* two devices of one account: this one is signed in and hydrated from the
\* table, the guard of the hydration pull has been released
InitPush ==
  /\ nodes = seedNodes
  /\ activeNodeId = firstFile(seedNodes)
  /\ nextId = 4
  /\ history = <<>>
  /\ historyTimer = HistoryEffect({}, nodes, activeNodeId)
  /\ decryptedNotes = <<>>
  /\ decryptedNotePasswords = <<>>
  /\ encryptedContentVersion = <<>>
  /\ encTasks = {}
  /\ localSync = [rootDirHandle |-> "null", fileHandleMap |-> <<>>, nodePathMap |-> <<>>]
  /\ localSyncNodeIds = {}
  /\ disk = <<>>
  /\ localTasks = {}
  /\ settings = "e1"
  /\ syncUser = "u1"
  /\ supabaseClient = "e1"
  /\ sessionRestorePending = FALSE
  /\ cloudHydrated = TRUE
  /\ cloudHydrationKey = Key("u1", "e1")
  /\ isCloudMutating = FALSE
  /\ cloudMutationUnlockTimer = NoTimer
  /\ unlockTimers = {}
  /\ autoPushTimer = {}
  /\ tasks = {}
  /\ remoteRows = [e \in Endpoints |-> IF e = "e1" THEN rowsOf(seedNodes, "u1") ELSE NoRows]
  /\ sinceChange = 0
  /\ ops = MaxPushOps
  /\ lastOp = Op("init", Null, Null)

NextPush ==
  \/ CloudPush
  \/ \E t \in tasks, error \in BOOLEAN : PushDelete(t, error)
  \/ \E t \in tasks, error \in BOOLEAN : PushInsert(t, error)
  \/ NextPeer
  \/ \E i \in Ids(nodes) : DeleteNode(i)
  \/ CreateAtRoot(FILE)

SpecPush == InitPush /\ [][NextPush]_vars

\* the encryption overlay over a synced directory: the directory has been
\* imported and its note selected; the note is plain, or it has been
\* encrypted and is unlocked, or it has been locked again; storage mode
\* cloud with the session hydrated, so that every new tree arms its push
importedNote == 5

InitImported ==
  LET scan == openAndSync(DirectoryEntry("notes", << FileEntry("a", ".md", "hello") >>), 4)
      plain == initialNodes @@ scan.nodes
  IN /\ \E mode \in {"plain", "unlocked", "locked"}, password \in {"pw"}, salt \in {"s1"} :
          LET envelope == encryptNoteContent(plain[importedNote].content, password, salt)
          IN /\ nodes = IF mode = "plain" THEN plain
                        ELSE handleEncryptNote(plain, importedNote, envelope)
             /\ disk = IF mode = "plain"
                         THEN [i \in DOMAIN scan.fileHandleMap |-> scan.nodes[i].content]
                         ELSE [i \in DOMAIN scan.fileHandleMap |-> envelope]
             /\ decryptedNotes = IF mode = "unlocked"
                                   THEN (importedNote :> plain[importedNote].content)
                                   ELSE <<>>
             /\ decryptedNotePasswords = IF mode = "unlocked"
                                           THEN (importedNote :> password) ELSE <<>>
     /\ encryptedContentVersion = <<>>
     /\ activeNodeId = importedNote
     /\ nextId = scan.next
     /\ history = << VersionSnapshot(importedNote, plain[importedNote].name,
                                     plain[importedNote].content) >>
     /\ historyTimer = {}
     /\ localSync = [rootDirHandle |-> "notes", fileHandleMap |-> scan.fileHandleMap,
                     nodePathMap |-> scan.nodePathMap]
     /\ localSyncNodeIds = DOMAIN scan.nodes
     /\ localTasks = {}
     /\ encTasks = {}
     /\ settings = "e1"
     /\ syncUser = "u1"
     /\ supabaseClient = "e1"
     /\ cloudHydrated = TRUE
     /\ cloudHydrationKey = Key("u1", "e1")
     /\ sessionRestorePending = FALSE
     /\ isCloudMutating = FALSE
     /\ cloudMutationUnlockTimer = NoTimer
     /\ unlockTimers = {}
     /\ autoPushTimer = {}
     /\ tasks = {}
     /\ remoteRows = [e \in Endpoints |-> NoRows]
     /\ sinceChange = 0
     /\ lastOp = Op("init", Null, Null)

InitOverlay == InitImported /\ ops = MaxOverlayOps

NextOverlay ==
  \/ \E c \in Contents : UpdateContent(c)
  \/ \E k \in DOMAIN history : RestoreVersion(history[k].content)
  \/ \E p \in Passwords : EncryptNote(p)
  \/ \E p \in Passwords : DecryptNote(p)
  \/ LockNote
  \/ \E t \in encTasks : ReencryptDone(t)
  \/ \E t \in encTasks : RestoreDone(t)
  \/ \E t \in encTasks : EncryptDone(t)
  \/ \E t \in encTasks : DecryptDone(t)
  \/ \E t \in encTasks : LockDone(t)
  \/ \E t \in encTasks : EncryptRejected(t)

SpecOverlay == InitOverlay /\ [][NextOverlay]_vars

\* the overlay together with the removal of nodes
NextEvict ==
  \/ NextOverlay
  \/ \E i \in Ids(nodes) : DeleteNode(i)

SpecEvict == InitOverlay /\ [][NextEvict]_vars

\* everything together: the coordinator with the whole node tree store
\* VersionHistoryPanel: the button that clears the history of the open note
ClearVersions ==
  /\ activeNodeId \in Files(nodes)
  /\ Spend(Op("ClearVersions", activeNodeId, Null))
  /\ history' = clearVersions(history, activeNodeId)
  /\ UNCHANGED <<treeVars, historyTimer, localVars, overlayVars, syncVars, autoPushTimer,
                 sinceChange>>

(***************************************************************************)
(* The editor with the recorder: the edits, the encryption gestures and    *)
(* the version panel of a local session, and the passage of time.          *)
(***************************************************************************)
InitHistory ==
  /\ InitCommon
  /\ settings = "local"
  /\ supabaseClient = NoClient
  /\ sessionRestorePending = FALSE
  /\ ops = MaxHistoryOps

NextHistory ==
  \/ NextOverlay
  \/ \E i \in Ids(nodes) : SelectNode(i)
  \/ CreateAtRoot(FILE)
  \/ ClearVersions
  \/ \E t \in historyTimer : HistoryFire(t)
  \/ Tick

SpecHistory == InitHistory /\ [][NextHistory]_vars

(***************************************************************************)
(* The version history recorder on its own: saveVersion is called for two  *)
(* notes.  A call passes either a content that was not passed before (the  *)
(* text of the next number) or the content of the latest snapshot of the   *)
(* note.                                                                   *)
(***************************************************************************)
\* the newest snapshot is the last of the store: the text of the number after it
NewContent(all) ==
  IF all = <<>> THEN "1"
  ELSE ToString(1 + CHOOSE k \in 1..MaxRecords : ToString(k) = all[Len(all)].content)

RecordNames == (2 :> "Start Here") @@ (importedNote :> "a.md")
RecordIds == DOMAIN RecordNames

Record(nodeId, content) ==
  /\ Spend(Op("Record", nodeId, content))
  /\ nodeId = importedNote =>
       Len(SelectSeq(history, LAMBDA v : v.nodeId = nodeId)) < MaxOtherRecords
  /\ \/ content = NewContent(history)
     \/ \E k \in DOMAIN history :
          /\ history[k].nodeId = nodeId /\ history[k].content = content
          /\ \A j \in DOMAIN history : j > k => history[j].nodeId # nodeId
  /\ history' = saveVersion(history, nodeId, RecordNames[nodeId], content)
  /\ UNCHANGED <<treeVars, historyTimer, localVars, overlayVars, syncVars, autoPushTimer,
                 sinceChange>>

RecordContents == {ToString(k) : k \in 1..MaxRecords}

InitRecord ==
  /\ InitCommon
  /\ settings = "local"
  /\ supabaseClient = NoClient
  /\ sessionRestorePending = FALSE
  /\ ops = MaxRecords

NextRecord == \E nodeId \in RecordIds, content \in RecordContents : Record(nodeId, content)

SpecRecord == InitRecord /\ [][NextRecord]_vars

(***************************************************************************)
(* The directory adapter with the editor: a session that has imported a    *)
(* directory opens another one or disconnects while the note is edited.    *)
(***************************************************************************)
InitLocal == InitImported /\ ops = MaxLocalOps

NextLocalEdit ==
  \/ NextLocal
  \/ \E c \in Contents : UpdateContent(c)
  \/ \E i \in Ids(nodes) : SelectNode(i)

SpecLocal == InitLocal /\ [][NextLocalEdit]_vars

\* the editor of an imported note with lock and unlock, without the version
\* history panel
NextLock ==
  \/ \E c \in Contents : UpdateContent(c)
  \/ \E p \in Passwords : DecryptNote(p)
  \/ LockNote
  \/ \E t \in encTasks : ReencryptDone(t)
  \/ \E t \in encTasks : DecryptDone(t)
  \/ \E t \in encTasks : LockDone(t)

SpecLock == InitOverlay /\ [][NextLock]_vars

\* the overlay over a run long enough for an edit, a relock, an unlock and
\* another edit
InitRelock == InitImported /\ ops = MaxRelockOps

SpecRelock == InitRelock /\ [][NextOverlay]_vars

Next ==
  \/ NextTree
  \/ \E t \in localTasks : ScanFail(t)
  \/ DisconnectLocal
  \/ \E t \in localTasks, error \in BOOLEAN : DisconnectDone(t, error)
  \/ NextSession
  \/ NextRemote
  \/ NextPeer
  \/ NextOverlay

\* a tree an earlier session left in the persistence record: the welcome
\* note was recorded in the history and then encrypted, and the maps of that
\* session are gone
lockedNodes ==
  handleEncryptNote(initialNodes, 2, encryptNoteContent(initialNodes[2].content, "pw", "s1"))

InitAll ==
  /\ nodes = lockedNodes
  /\ history = << VersionSnapshot(2, initialNodes[2].name, initialNodes[2].content) >>
  /\ historyTimer = {}
  /\ decryptedNotes = <<>>
  /\ decryptedNotePasswords = <<>>
  /\ encryptedContentVersion = <<>>
  /\ InitRest
  /\ settings \in {"local", "e1"}
  /\ supabaseClient = IF settings = "local" THEN NoClient ELSE settings
  /\ sessionRestorePending = (settings # "local")
  /\ ops = MaxAllOps

Spec == InitAll /\ [][Next]_vars

(***************************************************************************)
(* Tree vocabulary of the claims, defined downward through the children    *)
(* relation (the code walks upward).                                       *)
(***************************************************************************)
Children(ns, S) == {c \in DOMAIN ns : ns[c].parentId \in S}

RECURSIVE Closure(_, _)
Closure(ns, S) ==
  LET T == S \cup Children(ns, S)
  IN IF T = S THEN S ELSE Closure(ns, T)

\* n together with every node whose parentId chain reaches n
Subtree(ns, n) == Closure(ns, {n})

Acyclic(ns) == \A n \in DOMAIN ns : n \notin Closure(ns, Children(ns, {n}))

(***************************************************************************)
(* Node tree store.                                                        *)
(***************************************************************************)
\* C1: for every node n of the tree and every proposed parent p that is n
\* itself or a descendant of n, handleMoveNode(n, p) hands back the node
\* collection it was given, every field of every node included.
MoveIntoOwnSubtreeIsNoOp ==
  \A n \in DOMAIN nodes : \A p \in Subtree(nodes, n) :
    handleMoveNode(nodes, n, p) = nodes

\* a node was dropped on a strict descendant and the move was turned down
MoveIntoOwnSubtreeHappened ==
  /\ lastOp.op = "MoveNode"
  /\ lastOp.arg # lastOp.id
  /\ lastOp.arg \in Subtree(nodes, lastOp.id)

\* C2: for every node n, handleDeleteNode(n) removes n and every node whose
\* parentId chain reaches n, and nothing else; every other node stays, with
\* all its fields as they were.
DeleteRemovesExactlySubtree ==
  \A n \in DOMAIN nodes :
    LET r == handleDeleteNode(nodes, n)
    IN /\ DOMAIN r = DOMAIN nodes \ Subtree(nodes, n)
       /\ \A i \in DOMAIN r : r[i] = nodes[i]

\* a delete took a node with descendants and left other nodes behind
DeleteOfSubtreeHappened ==
  /\ lastOp.op = "DeleteNode"
  /\ lastOp.arg - Cardinality(DOMAIN nodes) >= 2
  /\ DOMAIN nodes # {}

\* C3: in every reachable state of the application (tree gestures, directory
\* import, pushes and pulls of pushed trees) no node is its own ancestor
\* through the parentId chain.
TreeAcyclic == Acyclic(nodes)

PullSteps == {"HydrateDone", "PullDone", "RealtimePullDone"}

\* a pull replaced the tree by a pushed tree in which a node that was moved
\* or created locally hangs below another one
PulledNestedTree ==
  /\ lastOp.op \in PullSteps
  /\ lastOp.arg = FALSE
  /\ \E n \in DOMAIN nodes : nodes[n].parentId # Null /\ nodes[n] # seedNodes[2]

(***************************************************************************)
(* Encryption overlay.                                                     *)
(***************************************************************************)
\* C4: an edit of an unlocked encrypted note puts its plaintext in the cache;
\* an encryption that resolves when a later edit of the note has been issued
\* writes nothing into the tree; and once no encryption of the note is
\* pending, the tree holds an envelope that opens, under the password of the
\* note, to the plaintext of the last edit.
VersionGuard ==
  [][/\ (/\ lastOp'.op = "UpdateContent"
         /\ isEncryptedContent(nodes[lastOp'.id].content)
         /\ lastOp'.id \in DOMAIN decryptedNotePasswords)
          => decryptedNotes'[lastOp'.id] = lastOp'.arg
     /\ (/\ lastOp'.op = "ReencryptDone"
         /\ mapGet(encryptedContentVersion, lastOp'.id, 0) # lastOp'.arg)
          => nodes' = nodes
     /\ \A id \in DOMAIN encryptedContentVersion' :
          (\A t \in encTasks' : t.id # id) =>
             decryptNoteContent(nodes'[id].content, decryptedNotePasswords'[id])
               = [threw |-> FALSE, plain |-> decryptedNotes'[id]]]_vars

\* two edits were issued, the encryption of the second resolved first and the
\* encryption of the first resolved last
StaleEncryptionResolvedLast ==
  /\ lastOp.op = "ReencryptDone"
  /\ encTasks = {}
  /\ lastOp.arg < mapGet(encryptedContentVersion, lastOp.id, 0)
  /\ decryptNoteContent(nodes[lastOp.id].content, decryptedNotePasswords[lastOp.id])
       = [threw |-> FALSE, plain |-> decryptedNotes[lastOp.id]]

(***************************************************************************)
(* Reconciliation coordinator.                                             *)
(***************************************************************************)
\* C5: a realtime notification delivered while isCloudMutating is set starts
\* no pull and leaves the tree as it is.
RealtimeIgnoredUnderGuard ==
  [][(lastOp'.op = "onChange" /\ isCloudMutating) => (tasks' = tasks /\ nodes' = nodes)]_vars

\* a notification arrived while a guarded push was in flight, and no pull
\* followed
RealtimeArrivedUnderGuard ==
  /\ lastOp.op = "onChange"
  /\ isCloudMutating
  /\ \E t \in tasks : t.kind \in {"push", "autopush"}
  /\ \A t \in tasks : t.kind # "rtpull"

\* C6: whenever isCloudMutating is set and no guarded operation is in
\* flight, the flag becomes clear unless another guarded operation starts
\* first, whether the operations before succeeded or failed.
GuardedKinds == {"push", "autopush", "pull", "hydrate"}

GuardedInFlight == \E t \in tasks : t.kind \in GuardedKinds

GuardEventuallyReleased ==
  (isCloudMutating /\ ~GuardedInFlight) ~> (~isCloudMutating \/ GuardedInFlight)

\* a guarded operation has just failed and left the flag set
GuardedOperationFailed ==
  /\ lastOp.op \in {"PushDelete", "PushInsert", "HydrateDone", "PullDone"}
  /\ lastOp.arg = TRUE
  /\ isCloudMutating
  /\ ~GuardedInFlight

\* C7: a run of the hydration effect whose session key is the one of the run
\* before issues no pull, also while the first pull is in flight; a run whose
\* key is new issues exactly one.
HydrationOnce ==
  [][LET issued == {t \in tasks' \ tasks : t.kind = "hydrate"}
         key == Key(syncUser', settings')
     IN /\ key = CurrentKey => issued = {}
        /\ (key # CurrentKey /\ key # NoKey) => Cardinality(issued) = 1]_vars

\* C8: an auto-push starts only when the session of the current key is
\* hydrated and isCloudMutating is clear.
AutoPushOnlyHydratedAndUnguarded ==
  [][lastOp'.op = "AutoPush" =>
       /\ ~isCloudMutating
       /\ cloudHydrated
       /\ CurrentKey # NoKey
       /\ cloudHydrationKey = CurrentKey]_vars

\* C9: a tree change leaves no pending auto-push but the one armed for the
\* new tree, with the whole window ahead of it; an auto-push starts no sooner
\* than a whole window after the latest tree change and pushes the tree as it
\* is then.
AutoPushTrailingDebounce ==
  [][/\ nodes' # nodes =>
          \A t \in autoPushTimer' : t.remaining = AutoPushDelay /\ t.nodes = nodes'
     /\ lastOp'.op = "AutoPush" =>
          /\ sinceChange >= AutoPushDelay
          /\ tasks' \ tasks # {}
          /\ \A t \in tasks' \ tasks : t.kind = "autopush" /\ t.nodes = nodes]_vars

\* an auto-push started after an edit of the hydrated tree
AutoPushStarted ==
  /\ lastOp.op = "AutoPush"
  /\ sinceChange = AutoPushDelay
  /\ \E t \in tasks : t.kind = "autopush" /\ t.nodes = nodes /\ nodes # seedNodes

\* C10: a pull that fails (hydration, manual or realtime) leaves the tree as
\* it is; a pull that succeeds replaces it by every row the user can see.
FailedPullKeepsTree ==
  [][lastOp'.op \in PullSteps =>
       \A t \in tasks \ tasks' :
         IF lastOp'.arg
           THEN nodes' = nodes
           ELSE LET rows == remoteRows[t.endpoint]
                    visible == {i \in DOMAIN rows : rows[i].user_id = t.user}
                IN nodes' = [i \in visible |-> rowToNode(rows[i])]]_vars

\* a pull failed while the table held rows that differ from the tree
PullFailed ==
  /\ lastOp.op \in PullSteps
  /\ lastOp.arg = TRUE
  /\ DOMAIN nodes # {}
  /\ \E e \in Endpoints : DOMAIN remoteRows[e] # {} /\ DOMAIN remoteRows[e] # DOMAIN nodes

\* C11: when pushAll has succeeded, a pullAll run at once against the same
\* table by the same user returns the pushed set: the same ids and for each
\* id the same parentId, name, type, content, isOpen and createdAt.
PushPullRoundTrip ==
  [][(lastOp'.op = "PushInsert" /\ lastOp'.arg = FALSE) =>
       \A t \in tasks \ tasks' :
         fetchAllNotes(remoteRows'[t.endpoint], t.user, FALSE).data = t.nodes]_vars

\* C12: when pushes of one user overlap, the rows of the user after an insert
\* that committed are exactly the node set of that push, never a mixture or
\* a union of the sets of two pushes.
ConcurrentPushLastWins ==
  [][(lastOp'.op \in {"PushInsert", "PeerPushInsert"} /\ lastOp'.arg = FALSE) =>
       \A t \in tasks \ tasks' :
         LET rows == remoteRows'[t.endpoint]
         IN Restrict(rows, {i \in DOMAIN rows : rows[i].user_id = t.user})
              = rowsOf(t.nodes, t.user)]_vars

\* C13: for a note whose tree content is an encrypted envelope, what an edit,
\* a restore or a relock writes for it into the tree, the persistence record,
\* the file of the synced directory and the rows of the next push is an
\* encrypted envelope, and no cached password is written to any of them.
OverlaySteps ==
  {"UpdateContent", "ReencryptDone", "RestoreVersion", "RestoreDone", "LockNote", "LockDone"}

CachedPasswords(m) == {m[i] : i \in DOMAIN m}

NoPlaintextPersisted ==
  [][lastOp'.op \in OverlaySteps =>
       \A id \in Files(nodes) \cap DOMAIN nodes' :
         isEncryptedContent(nodes[id].content) =>
           LET passwords == CachedPasswords(decryptedNotePasswords)
                              \cup CachedPasswords(decryptedNotePasswords')
           IN /\ isEncryptedContent(nodes'[id].content)
              /\ nodes'[id].content \notin passwords
              /\ isEncryptedContent(stringify(nodes'[id]).content)
              /\ (id \in DOMAIN disk' /\ disk'[id] # disk[id]) =>
                   (isEncryptedContent(disk'[id]) /\ disk'[id] \notin passwords)
              /\ \A timer \in autoPushTimer' :
                   LET row == rowsOf(timer.nodes, timer.user)[id]
                   IN isEncryptedContent(row.content) /\ row.content \notin passwords]_vars

\* a restore of an unlocked encrypted note has written its envelope into the
\* tree and the file, and the push of the new tree is armed
RestoredEnvelopeWritten ==
  /\ lastOp.op = "RestoreDone"
  /\ lastOp.id \in DOMAIN nodes /\ lastOp.id \in DOMAIN disk
  /\ isEncryptedContent(nodes[lastOp.id].content)
  /\ disk[lastOp.id] = nodes[lastOp.id].content
  /\ \E timer \in autoPushTimer : timer.nodes = nodes

\* C14: unlocking an envelope with a password other than the one it was
\* locked with yields no plaintext and reports WrongPasswordOrCorrupt; the
\* plaintext cache, the password cache and the tree are then as they were.
Plaintexts == Contents \cup {"hello", "welcome"}

LockedWithAnother(envelope, password) ==
  \E plain \in Plaintexts, other \in Passwords \ {password}, salt \in Salts :
    envelope = encryptNoteContent(plain, other, salt)

WrongPasswordRejected ==
  [][lastOp'.op = "DecryptDone" =>
       /\ \A plain \in Plaintexts, password \in Passwords, salt \in Salts :
            \A other \in Passwords \ {password} :
              decryptNoteContent(encryptNoteContent(plain, password, salt), other)
                = WrongPasswordOrCorrupt
       /\ \A t \in encTasks \ encTasks' :
            LockedWithAnother(t.content, t.password) =>
              /\ lastOp'.arg = "WrongPasswordOrCorrupt"
              /\ decryptedNotes' = decryptedNotes
              /\ decryptedNotePasswords' = decryptedNotePasswords
              /\ nodes' = nodes]_vars

\* an unlock with the wrong password has been turned down
WrongPasswordTried ==
  /\ lastOp.op = "DecryptDone"
  /\ lastOp.arg = "WrongPasswordOrCorrupt"
  /\ lastOp.id \in Files(nodes)
  /\ lastOp.id \notin DOMAIN decryptedNotes

\* C15: when a relock of a note completes, the plaintext cache, the password
\* cache and the version counter hold no entry for the note, its tree content
\* is an encrypted envelope, and nothing but an unlock asked for afterwards
\* brings the plaintext back: no promise still pending will fill the caches.
RelockEvicts ==
  [][lastOp'.op = "LockDone" =>
       LET id == lastOp'.id
       IN /\ id \notin DOMAIN decryptedNotes'
          /\ id \notin DOMAIN decryptedNotePasswords'
          /\ id \notin DOMAIN encryptedContentVersion'
          /\ id \in DOMAIN nodes' => isEncryptedContent(nodes'[id].content)
          /\ \A t \in encTasks' :
               t.id = id =>
                 /\ t.kind # "encrypt"
                 /\ t.kind = "decrypt" => decryptNoteContent(t.content, t.password).threw]_vars

\* C16: once the eviction effect of the latest tree change has run, the
\* plaintext cache, the password cache and the version counter hold no entry
\* for an id that is absent from the tree, whatever lock or unlock completes
\* after the node was removed.
CachesWithinTree ==
  /\ DOMAIN decryptedNotes \subseteq DOMAIN nodes
  /\ DOMAIN decryptedNotePasswords \subseteq DOMAIN nodes
  /\ DOMAIN encryptedContentVersion \subseteq DOMAIN nodes

\* C17: a call of saveVersion whose content is the content of the latest
\* snapshot of the note stores nothing; after two calls in a row with the
\* same note and the same content the store is as it was after the first,
\* and the latest snapshot of the note holds that content.
RecordTwiceStoresOnce ==
  [][lastOp'.op = "Record" =>
       LET id == lastOp'.id
           old == versionsOf(history, id)
           new == versionsOf(history', id)
       IN /\ (Len(old) > 0 /\ old[Len(old)].content = lastOp'.arg) => history' = history
          /\ (lastOp.op = "Record" /\ lastOp.id = id /\ lastOp.arg = lastOp'.arg) =>
               /\ history' = history
               /\ Len(new) > 0 /\ new[Len(new)].content = lastOp'.arg]_vars

\* two calls were made and one snapshot is stored
SecondRecordDropped ==
  /\ lastOp.op = "Record"
  /\ ops = MaxRecords - 2
  /\ Len(history) = 1
  /\ history[1].nodeId = lastOp.id /\ history[1].content = lastOp.arg


\* C18: the recorder keeps at most MAX_VERSIONS snapshots of a note; a call
\* that stores a snapshot puts it after the snapshots of the note, drops the
\* oldest of them when MAX_VERSIONS were kept, and leaves the others in the
\* order of recording; the snapshots of every other note stay as they were.
TrimsToMostRecent ==
  /\ [](\A id \in RecordIds : Len(versionsOf(history, id)) <= MAX_VERSIONS)
  /\ [][lastOp'.op = "Record" =>
          LET id == lastOp'.id
              old == versionsOf(history, id)
              new == versionsOf(history', id)
          IN /\ \A other \in RecordIds \ {id} :
                  versionsOf(history', other) = versionsOf(history, other)
             /\ history' # history =>
                  /\ new[Len(new)].nodeId = id /\ new[Len(new)].content = lastOp'.arg
                  /\ SubSeq(new, 1, Len(new) - 1)
                       = IF Len(old) < MAX_VERSIONS THEN old ELSE Tail(old)]_vars

\* the oldest snapshots of the first note were dropped, the other note has one
OldestEvicted ==
  /\ lastOp.op = "Record" /\ lastOp.id = 2
  /\ Len(versionsOf(history, 2)) = MAX_VERSIONS
  /\ versionsOf(history, 2)[1].content \notin {"1", "2"}
  /\ Len(versionsOf(history, importedNote)) = 1


HistoryDebounce ==
  /\ []((/\ lastOp.op = "UpdateContent"
         /\ activeNodeId = lastOp.id
         /\ activeNodeId \in Files(nodes)
         /\ ~isEncryptedContent(nodes[activeNodeId].content))
          => \E t \in historyTimer :
               /\ t.id = activeNodeId
               /\ t.content = nodes[activeNodeId].content
               /\ t.remaining = HistoryDelay)
  /\ [](Cardinality(historyTimer) <= 1)
  /\ [][lastOp'.op = "HistoryFire" =>
          LET id == lastOp'.id
              old == versionsOf(history, id)
              new == versionsOf(history', id)
          IN /\ id \in DOMAIN nodes /\ nodes[id].content = lastOp'.arg
             /\ new[Len(new)].content = lastOp'.arg
             /\ \/ history' = history /\ old[Len(old)].content = lastOp'.arg
                \/ Len(history') = Len(history) + 1
                \/ Len(old) = MAX_VERSIONS /\ Len(history') = Len(history)]_vars
  /\ [][history' # history => lastOp'.op \in {"HistoryFire", "ClearVersions"}]_vars


\* C21: an edit of a note of the synced directory whose tree content is not
\* an envelope leaves the content of the edit in the tree, whether the file
\* was written, the write was rejected or no handle is stored for the note;
\* the steps of the adapter that follow leave the tree content alone.
WriteBackNeverRollsBack ==
  [][/\ (/\ lastOp'.op = "UpdateContent"
         /\ isSynced(localSync) /\ lastOp'.id \in localSyncNodeIds
         /\ ~isEncryptedContent(nodes[lastOp'.id].content))
          => nodes'[lastOp'.id].content = lastOp'.arg
     /\ lastOp'.op \in {"ScanStep", "ScanFail", "DisconnectLocal", "DisconnectDone"}
          => nodes' = nodes]_vars

\* the note has lost its handle to the import of another directory and was
\* edited: the tree holds the content of the edit
EditedWithoutHandle ==
  /\ lastOp.op = "UpdateContent"
  /\ isSynced(localSync) /\ lastOp.id \in localSyncNodeIds
  /\ writeBackOutcome(localSync.fileHandleMap, lastOp.id, FALSE) = "HandleMissing"
  /\ nodes[lastOp.id].content = lastOp.arg
  /\ lastOp.arg # "hello"


\* the entries of a directory, at every depth
RECURSIVE EntryCount(_)
EntryCount(entries) ==
  IF entries = <<>> THEN 0
  ELSE 1 + (IF Head(entries).kind = "directory" THEN EntryCount(Head(entries).entries) ELSE 0)
         + EntryCount(Tail(entries))

NoteExtensions == {".md", ".txt", ".markdown"}

\* the entries of a directory that are to become nodes, each with its path
\* below the root and its type
RECURSIVE ExpectedNodes(_, _)
ExpectedNodes(entries, prefix) ==
  IF entries = <<>> THEN {}
  ELSE LET entry == Head(entries)
           path == Append(prefix, entry.stem \o entry.ext)
           here == IF entry.kind = "directory"
                     THEN {[path |-> path, type |-> FOLDER]}
                            \cup ExpectedNodes(entry.entries, path)
                   ELSE IF entry.ext \in NoteExtensions
                     THEN {[path |-> path, type |-> FILE]}
                   ELSE {}
       IN here \cup ExpectedNodes(Tail(entries), prefix)

\* the names on the way from the node root down to the node id
RECURSIVE TreePath(_, _, _)
TreePath(ns, root, id) ==
  IF id = root \/ id \notin DOMAIN ns THEN <<>>
  ELSE Append(TreePath(ns, root, ns[id].parentId), ns[id].name)

ScenarioDirectory ==
  DirectoryEntry("notes", << FileEntry("a", ".md", "hello"),
                             DirectoryEntry("b", << FileEntry("c", ".txt", "world"),
                                                    FileEntry("d", ".bin", "") >>) >>)

\* C22: when an import completes, the nodes it appends are one FOLDER for
\* the root and for every directory and one FILE for every file with a note
\* extension, none for another file, each below the node of its directory;
\* the progress counter has counted every entry (4 in the scenario).
ImportMapsDirectory ==
  [][(lastOp'.op = "OpenLocalFolderDone" /\ localTasks' # localTasks) =>
       \E t \in localTasks \ localTasks' :
         LET added == DOMAIN nodes' \ DOMAIN nodes
             expected == {[path |-> <<>>, type |-> FOLDER]}
                           \cup ExpectedNodes(t.dir.entries, <<>>)
         IN /\ t.rootId \in added /\ nodes'[t.rootId].parentId = Null
            /\ \A i \in added \ {t.rootId} :
                 nodes'[i].parentId \in added /\ nodes'[nodes'[i].parentId].type = FOLDER
            /\ {[path |-> TreePath(nodes', t.rootId, i), type |-> nodes'[i].type] : i \in added}
                 = expected
            /\ Cardinality(added) = Cardinality(expected)
            /\ lastOp'.arg = EntryCount(t.dir.entries)
            /\ t.dir = ScenarioDirectory => lastOp'.arg = 4 /\ Cardinality(added) = 4]_vars

\* the scenario directory has been imported: c.txt hangs below b, d.bin has
\* no node and four entries were counted
ScenarioImported ==
  /\ lastOp.op = "OpenLocalFolderDone" /\ lastOp.arg = 4
  /\ \E i \in DOMAIN nodes :
       /\ nodes[i].name = "c.txt" /\ nodes[i].type = FILE
       /\ nodes[nodes[i].parentId].name = "b"
       /\ nodes[nodes[i].parentId].parentId = lastOp.id
  /\ \A i \in DOMAIN nodes : nodes[i].name # "d.bin"


\* C23: once disconnect has completed and until the next open, the adapter
\* holds no root handle, no file handle and no path, whatever a scan that
\* was in progress does.
DisconnectHoldsNothing ==
  (/\ localSync.rootDirHandle = "null"
   /\ \A t \in localTasks : t.kind # "disconnect")
    => localSync.fileHandleMap = <<>> /\ localSync.nodePathMap = <<>>


\* C24: the version an edit of an unlocked note is given is greater than
\* the version of every re-encryption of the note that is still in flight,
\* whether or not the note was relocked and unlocked in between.
VersionsNeverReused ==
  [][(lastOp'.op = "UpdateContent" /\ encTasks' # encTasks) =>
       \A t \in encTasks :
         (t.kind = "update" /\ t.id = lastOp'.id)
            => t.version < encryptedContentVersion'[lastOp'.id]]_vars


\* C25: the mutation guard flag is set as long as a guarded remote operation
\* is in flight, also when another guarded operation has finished and its
\* cool-down timer has run out in the meantime.
GuardHeldWhileInFlight == GuardedInFlight => isCloudMutating


\* C26: when the result of a realtime-triggered pull replaces the tree right
\* after a local edit, the tree still holds the content of that edit (the
\* edit had reached the remote store before the pull read it).
EditSurvivesRealtimePull ==
  [][(/\ lastOp.op = "UpdateContent"
      /\ lastOp'.op = "RealtimePullDone" /\ lastOp'.arg = FALSE)
       => /\ lastOp.id \in DOMAIN nodes'
          /\ nodes'[lastOp.id].content = lastOp.arg]_vars


\* C27: a tree replacement produced by a realtime-triggered pull starts no
\* push of its own: when no auto-push was pending before the replacement,
\* none is pending after it.
RealtimePullArmsNoPush ==
  [][(/\ lastOp'.op = "RealtimePullDone" /\ lastOp'.arg = FALSE
      /\ tasks' # tasks
      /\ autoPushTimer = {})
       => autoPushTimer' = {}]_vars


\* a push that carries content c for node i has been started
PushCarries(i, c) ==
  \E t \in tasks : /\ t.kind \in {"push", "autopush"}
                   /\ i \in DOMAIN t.nodes /\ t.nodes[i].content = c

\* the tree no longer holds c for node i, or the session has ended
Superseded(i, c) ==
  \/ i \notin DOMAIN nodes
  \/ nodes[i].content # c
  \/ CurrentKey = NoKey

\* C28: in a hydrated, signed-in cloud session an edit that is followed by
\* no further change is eventually carried by a push, also when the edit is
\* made while the mutation guard is set.
AutoPushLiveness ==
  \A i \in 1..2, c \in Contents :
    [](((/\ lastOp.op = "UpdateContent" /\ lastOp.id = i /\ lastOp.arg = c
         /\ CurrentKey # NoKey /\ cloudHydrated)
          => <>(PushCarries(i, c) \/ Superseded(i, c))))


\* C29: whenever no encryption is in flight, the tree content of every note
\* that has a plaintext cache entry is an envelope that opens under the
\* cached password to the cached plaintext.
CacheMatchesTree ==
  encTasks = {} =>
    \A id \in DOMAIN decryptedNotes :
      /\ id \in DOMAIN nodes /\ id \in DOMAIN decryptedNotePasswords
      /\ decryptNoteContent(nodes[id].content, decryptedNotePasswords[id])
           = [threw |-> FALSE, plain |-> decryptedNotes[id]]


\* C30: when a relock completes and no re-encryption of the note is pending,
\* the envelope in the tree opens to the plaintext of the last edit applied
\* before, which is the plaintext the cache held until then.
RelockKeepsLastEdit ==
  [][(/\ lastOp'.op = "LockDone" /\ encTasks' # encTasks
      /\ lastOp'.id \in DOMAIN decryptedNotes
      /\ lastOp'.id \in DOMAIN decryptedNotePasswords
      /\ \A t \in encTasks' : t.id # lastOp'.id)
       => decryptNoteContent(nodes'[lastOp'.id].content, decryptedNotePasswords[lastOp'.id])
            = [threw |-> FALSE, plain |-> decryptedNotes[lastOp'.id]]]_vars
====
